---- MODULE Spec2Model ----
(***************************************************************************)
(* Model of the automation worker of Maximo_Automation_Tool_01.py:         *)
(* run_automation (the run controller and the per-sheet step pipeline),    *)
(* StreamlitAutomation.add_services_to_wo (the service-line loop), the     *)
(* pause/stop flags shared with the interactive surface (on_pause,         *)
(* on_stop) and the browser-session lifecycle (setup_browser,              *)
(* close_browser).  Calls into the browser are recorded in a call log, as  *)
(* a stub BrowserCapability would record them.                             *)
(***************************************************************************)
EXTENDS Integers, Sequences, FiniteSets, TLC

\* ------------------------------------------------------------------ bounds
MaxSheets == 2
MaxLines == 2
\* result pages of the Services table of a bill, and rows on one page
MaxPages == 2
MaxRows == 2
\* pieces a description text is made of
MaxTokens == 2

\* --------------------------------------------------------------- constants
\* run_automation: canonical = ["add_services","route_to_comp","create_bill","put_prices"]
canonical == <<"add_services", "route_to_comp", "create_bill", "put_prices">>

\* a start_at value that is not a stage name (canonical.index raises ValueError)
UnknownStage == "unknown"
StartAtValues == {canonical[i] : i \in 1..Len(canonical)} \cup {UnknownStage}
StageNames == {canonical[i] : i \in 1..Len(canonical)}

\* pandas NaN: what an empty cell of the sheet is read as
NaNItem == "<NaN>"
NaNQty == -1
\* cell contents of the "Service Item" column: a code, an empty string,
\* a whitespace-only string, an empty cell
ItemValues == {"IS1", "", " ", NaNItem}
\* cell contents of the "Quantity" column: zero, a quantity, an empty cell
QtyValues == {0, 1, NaNQty}
ServiceLine == [item : ItemValues, qty : QtyValues]

\* no row of the services table is being processed
NoService == [item |-> "", qty |-> 0]

\* None for automation.wo_number
NoWO == 0
\* '' for automation.wo_number: a header cell holding only white space
EmptyWO == -1

\* perform_login: max_login_attempts = 3
max_login_attempts == 3
\* what one submit attempt of perform_login ends in: verify_login_success
\* returned True; it returned False and no error message is shown; it
\* returned False on the login URL with an error message shown; a page call
\* raised
AttemptResults == {"verified", "unverified", "error_shown", "exception"}

VARIABLES
  pc,             \* position of the worker thread in run_automation
  excel_path,     \* params["excel_path"] is set
  selected_steps, \* params["selected_steps"]
  start_at,       \* params["start_at"]
  stop_event,     \* params["stop_event"].is_set()
  ui_paused,      \* st.session_state["paused"]
  paused,         \* automation.paused
  is_running,     \* st.session_state["is_running"]
  page,           \* run_automation holds a page handle (page is not None)
  session,        \* the browser session: "none", "open", "closed", "leaked"
  status,         \* st.session_state["status"], by kind
  total,          \* len(sheet_names)
  idx,            \* enumerate index of the sheet being processed
  wo_number,      \* automation.wo_number: NoWO or the sheet it was read from
  services_data,  \* len(automation.services_data): rows of the services table
  service,        \* the row iterrows() handed to the loop body (else NoService)
  ordered,        \* the effective stage list of the current sheet
  si,             \* position in ordered
  li,             \* position in services_data.iterrows()
  calls,          \* call log of the current sheet
  stop_at_begin,  \* the stop token was set when run_automation began
  stop_sheet,     \* sheet whose pipeline ran when on_stop was invoked (0: none)
  stop_observed,  \* Len(calls) when the worker first saw the stop (-1: not)
  login_verified, \* perform_login has just returned after a verified login
  progress,       \* st.session_state["progress"] as a fraction <<num, den>>
  skipped         \* the sheet the log has just reported as skipped for a
                  \* missing WO number (empty once a sheet has a WO number)

\* enter_services_prices, run on its own
VARIABLES
  ep_pc,              \* position inside process_customer_bill and
                      \* enter_services_prices
  price_table,        \* self.services_data: rows (Service Item, Total Price)
  pages,              \* the result pages: item codes of the rows page.evaluate returns
  fields,             \* value of each price input, by (page, row)
  page_number,        \* page_number
  ri,                 \* position in service_elements
  processed_services, \* processed_services
  writes,             \* item codes whose input was written, this call
  all_ok,             \* no page call raised and every written value stuck
  ep_call,            \* 1: first call, 2: a second call over the same pages
  fields_first        \* the fields as the first call left them

\* the bill name of create_customer_bill, computed on its own
VARIABLES
  bill_pc,                    \* "inputs": before the computation, "named": after
  wo_description,             \* self.wo_description
  excel_original_description, \* self.excel_original_description
  bill_wo_number,             \* self.wo_number, as text
  now_month,                  \* datetime.datetime.now().month
  now_year,                   \* datetime.datetime.now().year
  bill_name                   \* the text filled into the bill description input

\* one element-resolution ladder, run on its own
VARIABLES
  lad_pc,     \* "resolve": before the ladder runs, "resolved": after
  ladder,     \* which ladder
  visible,    \* is_visible() of each candidate, in declared order
  click,      \* what acting on each candidate ends in
  js_found,   \* click_route_button: the scripted query finds a button
  acted,      \* the candidates acted on, in order
  chosen,     \* the candidate the ladder ended on (0: none)
  lad_result, \* how the ladder ended
  script_tried \* an in-page script was run to find or click the control

\* the quantity write and the save of add_single_service, run on their own
VARIABLES
  qt_pc,         \* position inside the quantity block of add_single_service
  quantity,      \* float(service.get('Quantity', 1.00)), in thousandths
  qty_visible,   \* is_visible() of the field each quantity selector finds
  echo,          \* what each write attempt ends in
  qt_attempt,    \* write attempts started
  field_text,    \* input_value().strip() of the quantity field, in hundredths
  echoed,        \* input_value() was seen to equal the written text
  save_clicked,  \* the save button of the page was clicked
  qt_result      \* what add_single_service returns

\* route_wo_to_comp, run on its own
VARIABLES
  rt_pc,         \* the transition route_wo_to_comp is at
  rt_cand,       \* click_route_button: the candidate it is at (0: not inside it)
  route_clicks,  \* clicks on a Route button that were carried out
  rt_log,        \* the transitions attempted, in order, each with its outcome
  rt_result      \* how route_wo_to_comp ended

\* create_customer_bill: the batch number and the bill form, run on their own
VARIABLES
  cb_pc,          \* position inside create_customer_bill
  batch_visible,  \* bill_batch_el.is_visible()
  batch_value,    \* bill_batch_el.input_value()
  js_value,       \* what the scripted read of the field's value gives
  bill_batch,     \* self.bill_batch
  batch_before,   \* self.bill_batch when create_customer_bill was called
  name_written,   \* the bill description input was filled with bill_name
  confirmed,      \* the OK button of the bill form was clicked
  cb_result       \* how create_customer_bill ended

\* save_bill_changes, run on its own
VARIABLES
  sv_pc,            \* position inside save_bill_changes
  sv_attempt,       \* attempt of 'for attempt in range(max_attempts)'
  sv_selector,      \* index of the selector the inner loop is at
  save_successful,  \* save_successful
  save_clicks,      \* clicks that reached the save control, in order
  sv_result         \* how save_bill_changes ended

\* the interactive surface (on_start, on_pause, on_stop, the controls) and
\* the worker threads it starts
VARIABLES
  threads,        \* where each worker thread started so far has got to
  events,         \* is_set() of the threading.Event made for each run
  ss_stop_event,  \* st.session_state["stop_event"]: its run (0: None)
  ss_is_running,  \* st.session_state["is_running"]
  ss_paused,      \* st.session_state["paused"]
  shown_running,  \* is_running as the last script run read it for the buttons
  toggles         \* calls of on_pause since the last on_start

\* one sheet's header cells, the Job read from them and update_excel_file
VARIABLES
  xl_pc,         \* position: header read, step pipeline, update_excel_file, over
  has_path,      \* self.working_excel_path is set
  cells,         \* the header cells B2..B6 of the sheet in the working copy
  cells_before,  \* the header cells when update_excel_file was called
  job,           \* wo_number, wo_description, bill_batch, bill_status, reviewed_by
  bill_created,  \* what the create_bill step did for the Job
  xl_result      \* what update_excel_file returned

\* the put_prices step of run_automation, run on its own
VARIABLES
  pp_pc,     \* position inside the put_prices step
  pp_saves   \* calls of save_bill_changes made by the step

vars == <<pc, excel_path, selected_steps, start_at, stop_event, ui_paused,
          paused, is_running, page, session, status, total, idx, wo_number,
          services_data, service, ordered, si, li, calls, stop_at_begin,
          stop_sheet, stop_observed, login_verified, progress, skipped,
          ep_pc, price_table, pages, fields, page_number, ri,
          processed_services, writes, all_ok, ep_call, fields_first,
          bill_pc, wo_description, excel_original_description,
          bill_wo_number, now_month, now_year, bill_name,
          lad_pc, ladder, visible, click, js_found, acted, chosen,
          lad_result, script_tried,
          qt_pc, quantity, qty_visible, echo, qt_attempt, field_text,
          echoed, save_clicked, qt_result,
          rt_pc, rt_cand, route_clicks, rt_log, rt_result,
          cb_pc, batch_visible, batch_value, js_value, bill_batch,
          batch_before, name_written, confirmed, cb_result,
          sv_pc, sv_attempt, sv_selector, save_successful, save_clicks,
          sv_result,
          threads, events, ss_stop_event, ss_is_running, ss_paused,
          shown_running, toggles,
          xl_pc, has_path, cells, cells_before, job, bill_created, xl_result,
          pp_pc, pp_saves>>

\* the state of run_automation and of the interactive surface
runstate == <<pc, excel_path, selected_steps, start_at, stop_event, ui_paused,
              paused, is_running, page, session, status, total, idx,
              wo_number, services_data, service, ordered, si, li, calls,
              stop_at_begin, stop_sheet, stop_observed, login_verified,
              progress, skipped>>

\* the state of enter_services_prices
pricevars == <<ep_pc, price_table, pages, fields, page_number, ri,
               processed_services, writes, all_ok, ep_call, fields_first>>

\* the state of the bill-name computation
billvars == <<bill_pc, wo_description, excel_original_description,
              bill_wo_number, now_month, now_year, bill_name>>

\* the state of an element-resolution ladder
laddervars == <<lad_pc, ladder, visible, click, js_found, acted, chosen,
                lad_result, script_tried>>

\* the state of the quantity write of add_single_service
qtyvars == <<qt_pc, quantity, qty_visible, echo, qt_attempt, field_text,
             echoed, save_clicked, qt_result>>

\* the state of route_wo_to_comp
routevars == <<rt_pc, rt_cand, route_clicks, rt_log, rt_result>>

\* the state of the bill form of create_customer_bill
batchvars == <<cb_pc, batch_visible, batch_value, js_value, bill_batch,
               batch_before, name_written, confirmed, cb_result>>

\* the state of save_bill_changes
savevars == <<sv_pc, sv_attempt, sv_selector, save_successful, save_clicks,
              sv_result>>

\* the state of the interactive surface and of its worker threads
lifevars == <<threads, events, ss_stop_event, ss_is_running, ss_paused,
              shown_running, toggles>>

\* the state of a sheet's header cells and of update_excel_file
xlvars == <<xl_pc, has_path, cells, cells_before, job, bill_created,
            xl_result>>

\* the state of the put_prices step
putvars == <<pp_pc, pp_saves>>

\* the state of the functions that are modelled on their own
subvars == <<pricevars, billvars, laddervars, qtyvars, routevars, batchvars,
             savevars, lifevars, xlvars, putvars>>

\* everything but the state of enter_services_prices
notprices == <<runstate, billvars, laddervars, qtyvars, routevars, batchvars,
               savevars, lifevars, xlvars, putvars>>

\* everything but the state of the bill-name computation
notbill == <<runstate, pricevars, laddervars, qtyvars, routevars, batchvars,
             savevars, lifevars, xlvars, putvars>>

\* everything but the state of the ladder
notladder == <<runstate, pricevars, billvars, qtyvars, routevars, batchvars,
               savevars, lifevars, xlvars, putvars>>

\* everything but the state of the quantity write
notqty == <<runstate, pricevars, billvars, laddervars, routevars, batchvars,
            savevars, lifevars, xlvars, putvars>>

\* everything but the state of route_wo_to_comp
notroute == <<runstate, pricevars, billvars, laddervars, qtyvars, batchvars,
              savevars, lifevars, xlvars, putvars>>

\* everything but the state of the bill form
notbatch == <<runstate, pricevars, billvars, laddervars, qtyvars, routevars,
              savevars, lifevars, xlvars, putvars>>

\* everything but the state of save_bill_changes
notsave == <<runstate, pricevars, billvars, laddervars, qtyvars, routevars,
             batchvars, lifevars, xlvars, putvars>>

\* everything but the state of the interactive surface
notlife == <<runstate, pricevars, billvars, laddervars, qtyvars, routevars,
             batchvars, savevars, xlvars, putvars>>

\* everything but the state of the header cells
notxl == <<runstate, pricevars, billvars, laddervars, qtyvars, routevars,
           batchvars, savevars, lifevars, putvars>>

\* everything but the state of the put_prices step
notput == <<runstate, pricevars, billvars, laddervars, qtyvars, routevars,
            batchvars, savevars, lifevars, xlvars>>

\* everything but the state of the put_prices step and of save_bill_changes
notputsave == <<runstate, pricevars, billvars, laddervars, qtyvars, routevars,
                batchvars, lifevars, xlvars>>

\* ---------------------------------------------------------- pure helpers
\* canonical.index(s), 1-based; 0 when s is not in the list (ValueError)
CanonicalIndex(s) ==
  IF \E i \in 1..Len(canonical) : canonical[i] = s
    THEN CHOOSE i \in 1..Len(canonical) : canonical[i] = s
    ELSE 0

\* try: start_idx = canonical.index(start_at) / except ValueError: start_idx = 0
StartIdx(s) == IF CanonicalIndex(s) = 0 THEN 1 ELSE CanonicalIndex(s)

InSelected(sel, s) == s \in sel

\* ordered = [s for s in canonical[start_idx:] if s in selected_steps]
Ordered_DropsStart(s, sel) ==
  LET tail == SubSeq(canonical, StartIdx(s) + 1, Len(canonical))
      keep(x) == InSelected(sel, x)
  IN SelectSeq(tail, keep)

Ordered(s, sel) ==
  LET tail == SubSeq(canonical, StartIdx(s), Len(canonical))
      keep(x) == InSelected(sel, x)
  IN SelectSeq(tail, keep)

\* add_services_to_wo: if quantity == 0 or pd.isna(quantity): continue
SkipQuantity(q) == q = 0 \/ q = NaNQty

\* str(service_item).strip(): NaN prints as 'nan'
StrStrip(it) == IF it = NaNItem THEN "nan" ELSE IF it = " " THEN "" ELSE it

\* bool(service_item): only the empty string is falsy (NaN is truthy)
Truthy(it) == it # ""

\* add_services_to_wo: if not service_item or str(service_item).strip() == '': continue
SkipItem(it) == ~Truthy(it) \/ StrStrip(it) = ""

\* run_automation: if not automation.wo_number
MissingWO_NoneOnly(wo) == wo = NoWO

MissingWO(wo) == wo \in {NoWO, EmptyWO}

\* set_progress: val = max(0.0, min(1.0, float(value))), for value = n/d
SetProgress(n, d) ==
  IF n < 0 THEN <<0, 1>> ELSE IF n > d THEN <<1, 1>> ELSE <<n, d>>

\* run_automation: set_progress(idx/total)
JobProgress_Behind(i, t) == SetProgress(i - 1, t)

JobProgress(i, t) == SetProgress(i, t)

\* add_services_to_wo:
\* set_progress(min(0.99, processed_services / max(1, total_services)))
InnerProgress(n, t) ==
  LET d == IF t < 1 THEN 1 ELSE t
  IN IF n * 100 >= 99 * d THEN SetProgress(99, 100) ELSE SetProgress(n, d)

\* perform_login, lines 775-896: the submit loop over the attempts, given
\* what each attempt ends in; the function returns without raising when the
\* last attempt is unverified
RECURSIVE LoginOutcomeFrom(_, _)
LoginOutcomeFrom(results, attempt) ==
  IF attempt > max_login_attempts THEN "unverified"
  ELSE CASE results[attempt] = "verified" -> "verified"
         [] results[attempt] = "error_shown" -> "raised"
         [] results[attempt] = "exception" -> "raised"
         [] results[attempt] = "unverified" ->
              LoginOutcomeFrom(results, attempt + 1)

\* perform_login, lines 732-772: raises when no login form is detected
LoginOutcome(form, results) ==
  IF ~form THEN "raised" ELSE LoginOutcomeFrom(results, 1)

\* check_pause / wait_if_paused: blocks while self.paused and not stop_event.is_set()
PauseBlocks == paused /\ ~stop_event

\* one entry of the call log: the method, the row it was given (0 and
\* NoService when it takes none) and how it ended
Call(op, line, row, result) ==
  [op |-> op, line |-> line, row |-> row, result |-> result]

\* the worker is between the stop check of the sheet loop and set_progress
JobPcs == {"parse", "search", "step", "as_nav", "as_line", "as_single",
           "as_route", "route", "create_bill", "put_prices", "checkpoint"}

\* the sheet has a WO number and its pipeline is under way
PipelinePcs == JobPcs \ {"parse"}

\* ------------------------------------------------------------------- Init
\* enter_services_prices is not running
PricesIdle ==
  /\ ep_pc = "idle"
  /\ price_table = <<>>
  /\ pages = <<>>
  /\ fields = <<>>
  /\ page_number = 0
  /\ ri = 0
  /\ processed_services = {}
  /\ writes = <<>>
  /\ all_ok = TRUE
  /\ ep_call = 0
  /\ fields_first = <<>>

\* no bill name is being computed
BillIdle ==
  /\ bill_pc = "idle"
  /\ wo_description = <<>>
  /\ excel_original_description = <<>>
  /\ bill_wo_number = ""
  /\ now_month = 1
  /\ now_year = 2025
  /\ bill_name = ""

\* no ladder is being run
LadderIdle ==
  /\ lad_pc = "idle"
  /\ ladder = "none"
  /\ visible = <<>>
  /\ click = <<>>
  /\ js_found = FALSE
  /\ acted = <<>>
  /\ chosen = 0
  /\ lad_result = "none"
  /\ script_tried = FALSE

\* no quantity is being written
QtyIdle ==
  /\ qt_pc = "idle"
  /\ quantity = 1000
  /\ qty_visible = <<>>
  /\ echo = <<>>
  /\ qt_attempt = 0
  /\ field_text = 100
  /\ echoed = FALSE
  /\ save_clicked = FALSE
  /\ qt_result = "none"

\* route_wo_to_comp is not running
RouteIdle ==
  /\ rt_pc = "idle"
  /\ rt_cand = 0
  /\ route_clicks = 0
  /\ rt_log = <<>>
  /\ rt_result = "none"

\* create_customer_bill is not running
BatchIdle ==
  /\ cb_pc = "idle"
  /\ batch_visible = FALSE
  /\ batch_value = ""
  /\ js_value = ""
  /\ bill_batch = ""
  /\ batch_before = ""
  /\ name_written = FALSE
  /\ confirmed = FALSE
  /\ cb_result = "none"

\* save_bill_changes is not running
SaveIdle ==
  /\ sv_pc = "idle"
  /\ sv_attempt = 0
  /\ sv_selector = 0
  /\ save_successful = FALSE
  /\ save_clicks = <<>>
  /\ sv_result = "none"

\* no script run of the interactive surface has happened
LifeIdle ==
  /\ threads = <<>>
  /\ events = <<>>
  /\ ss_stop_event = 0
  /\ ss_is_running = FALSE
  /\ ss_paused = FALSE
  /\ shown_running = FALSE
  /\ toggles = 0

\* no sheet is open
ExcelIdle ==
  /\ xl_pc = "idle"
  /\ has_path = FALSE
  /\ cells = <<>>
  /\ cells_before = <<>>
  /\ job = <<>>
  /\ bill_created = "not_run"
  /\ xl_result = "none"

\* the put_prices step is not running
PutIdle ==
  /\ pp_pc = "idle"
  /\ pp_saves = 0

\* run_automation before it is started, whatever its parameters
RunIdle ==
  /\ pc = "init"
  /\ stop_event = FALSE
  /\ ui_paused = FALSE
  /\ paused = FALSE
  /\ is_running = TRUE
  /\ page = FALSE
  /\ session = "none"
  /\ status = "starting"
  /\ total = 0
  /\ idx = 0
  /\ wo_number = NoWO
  /\ services_data = 0
  /\ service = NoService
  /\ ordered = <<>>
  /\ si = 0
  /\ li = 0
  /\ calls = <<>>
  /\ stop_at_begin = FALSE
  /\ stop_sheet = 0
  /\ stop_observed = -1
  /\ login_verified = FALSE
  /\ progress = <<0, 1>>
  /\ skipped = {}

Init ==
  /\ excel_path \in BOOLEAN
  /\ selected_steps \in SUBSET StageNames
  /\ start_at \in StartAtValues
  /\ RunIdle
  /\ PutIdle
  /\ ExcelIdle
  /\ LifeIdle
  /\ SaveIdle
  /\ BatchIdle
  /\ RouteIdle
  /\ QtyIdle
  /\ PricesIdle
  /\ BillIdle
  /\ LadderIdle


params == <<excel_path, selected_steps, start_at>>
surface == <<stop_event, ui_paused, stop_sheet>>
sheetvars == <<total, idx, wo_number, services_data, service, ordered>>
ghosts == <<stop_at_begin, stop_observed>>
runvars == <<login_verified, progress, skipped>>

\* the call log with one more call of a method that takes no row
Logged(op, result) == Append(calls, Call(op, 0, NoService, result))

\* the worker sees the stop token set: remember where in the call log
Observed == IF stop_observed = -1 THEN Len(calls) ELSE stop_observed

\* ------------------------------------------------- run_automation: set-up
\* lines 2264-2303: read the parameters, build the adapter (paused=False)
Begin ==
  /\ pc = "init"
  /\ stop_at_begin' = stop_event
  /\ paused' = FALSE
  /\ IF ~excel_path
       THEN /\ status' = "no_excel"
            /\ pc' = "finally"
       ELSE /\ status' = "initializing"
            /\ pc' = "early_stop"
  /\ progress' = SetProgress(0, 1)
  /\ UNCHANGED <<params, subvars, login_verified, skipped, surface, sheetvars, is_running, page, session, si, li,
                 calls, stop_observed>>

\* a worker that does not look at the stop token before launching the browser
EarlyStopCheck_Ignored ==
  /\ pc = "early_stop"
  /\ pc' = "setup"
  /\ UNCHANGED <<params, subvars, runvars, surface, sheetvars, ghosts, paused, is_running, page,
                 session, status, si, li, calls>>

\* lines 2305-2309: early stop check
EarlyStopCheck ==
  /\ pc = "early_stop"
  /\ IF stop_event
       THEN /\ status' = "stopped_before_browser"
            /\ pc' = "finally"
       ELSE /\ status' = status
            /\ pc' = "setup"
  /\ UNCHANGED <<params, subvars, runvars, surface, sheetvars, ghosts, paused, is_running, page,
                 session, si, li, calls>>

\* lines 2311-2319 and setup_browser: start the session, open the login page
SetupBrowser ==
  /\ pc = "setup"
  /\ \E outcome \in {"ok", "no_playwright", "start_failed"} :
       \/ /\ outcome = "ok"
          /\ page' = TRUE
          /\ session' = "open"
          /\ status' = status
       \/ /\ outcome = "no_playwright"
          /\ page' = FALSE
          /\ session' = "none"
          /\ status' = status
       \/ /\ outcome = "start_failed"
          /\ page' = FALSE
          /\ session' \in {"none", "leaked"}
          /\ status' = "browser_failed"
  /\ pc' = "login"
  /\ UNCHANGED <<params, subvars, runvars, surface, sheetvars, ghosts, paused, is_running, si, li,
                 calls>>

\* lines 2321-2323 and perform_login: returns after a verified login, returns
\* after the last unverified attempt, or raises
Login ==
  /\ pc = "login"
  /\ IF page
       THEN \E form \in BOOLEAN,
               results \in [1..max_login_attempts -> AttemptResults] :
              LET outcome == LoginOutcome(form, results)
              IN /\ login_verified' = (outcome = "verified")
                 /\ status' = IF outcome = "verified" THEN "login_ok"
                                                      ELSE status
                 /\ pc' = IF outcome = "raised" THEN "except"
                                                ELSE "read_excel"
       ELSE /\ status' = status
            /\ pc' = "read_excel"
            /\ UNCHANGED login_verified
  /\ UNCHANGED <<params, subvars, progress, skipped, surface, sheetvars, ghosts, paused, is_running, page,
                 session, si, li, calls>>

\* lines 2325-2334: pd.ExcelFile(excel_path).sheet_names
ReadExcel ==
  /\ pc = "read_excel"
  /\ \/ /\ status' = "failed_reading_excel"
        /\ pc' = "finally"
        /\ UNCHANGED <<total, idx>>
     \/ \E n \in 1..MaxSheets :
          /\ total' = n
          /\ idx' = 1
          /\ status' = status
          /\ pc' = "loop"
  /\ login_verified' = FALSE
  /\ UNCHANGED <<params, subvars, progress, skipped, surface, ghosts, paused, is_running, page, session,
                 wo_number, services_data, service, ordered, si, li, calls>>

\* ------------------------------------------- run_automation: sheet loop
\* a worker that launches a browser for every sheet: the session of the
\* sheet before is left behind
LoopHead_SessionPerSheet ==
  /\ pc = "loop"
  /\ IF idx > total
       THEN /\ pc' = "complete"
            /\ UNCHANGED <<status, calls, stop_observed, session>>
       ELSE IF stop_event
         THEN /\ status' = "stopped_between_sheets"
              /\ pc' = "complete"
              /\ UNCHANGED <<calls, stop_observed, session>>
         ELSE /\ status' = "processing_sheet"
              /\ pc' = "parse"
              /\ calls' = <<>>
              /\ stop_observed' = -1
              /\ session' = IF page /\ idx > 1 THEN "leaked" ELSE session
  /\ UNCHANGED <<params, subvars, runvars, surface, sheetvars, paused,
                 is_running, page, si, li, stop_at_begin>>

\* lines 2335-2345: next sheet, or stop between sheets
LoopHead ==
  /\ pc = "loop"
  /\ IF idx > total
       THEN /\ pc' = "complete"
            /\ UNCHANGED <<status, calls, stop_observed>>
       ELSE IF stop_event
         THEN /\ status' = "stopped_between_sheets"
              /\ pc' = "complete"
              /\ UNCHANGED <<calls, stop_observed>>
         ELSE /\ status' = "processing_sheet"
              /\ pc' = "parse"
              /\ calls' = <<>>
              /\ stop_observed' = -1
  /\ UNCHANGED <<params, subvars, runvars, surface, sheetvars, paused, is_running, page, session,
                 si, li, stop_at_begin>>

\* lines 2347-2418: read the header cells and the services table of the
\* sheet, skip a sheet without WO number, compute the effective stage list
ParseSheet ==
  /\ pc = "parse"
  /\ \E hdr \in {"ok", "empty", "blank", "error"}, rows \in 0..MaxLines :
       /\ wo_number' = CASE hdr = "ok" -> idx
                         [] hdr = "empty" -> NoWO
                         [] hdr = "blank" -> EmptyWO
                         [] hdr = "error" -> wo_number
       /\ services_data' = rows
       /\ IF MissingWO(wo_number')
            THEN /\ progress' = JobProgress(idx, total)
                 /\ skipped' = {idx}
                 /\ idx' = idx + 1
                 /\ pc' = "loop"
                 /\ UNCHANGED ordered
            ELSE /\ ordered' = Ordered(start_at, selected_steps)
                 /\ skipped' = {}
                 /\ pc' = "search"
                 /\ UNCHANGED <<idx, progress>>
  /\ UNCHANGED <<params, subvars, login_verified, surface, ghosts, paused, is_running, page, session,
                 status, total, service, si, li, calls>>

\* a worker that searches the work order without looking at the page handle
Search_NoPageCheck ==
  /\ pc = "search"
  /\ \E ok \in BOOLEAN :
       /\ calls' = Logged("search_work_order", IF ok THEN "ok" ELSE "raised")
       /\ status' = "searching"
       /\ si' = IF ok THEN 1 ELSE 0
       /\ pc' = IF ok THEN "step" ELSE "except"
  /\ UNCHANGED <<params, subvars, runvars, surface, sheetvars, ghosts, paused, is_running, page,
                 session, li>>

\* lines 2420-2422 and 2450-2452: search_work_order when there is a page,
\* straight to update_excel_file when there is none
Search ==
  /\ pc = "search"
  /\ IF page
       THEN \E ok \in BOOLEAN :
              /\ calls' = Logged("search_work_order",
                                 IF ok THEN "ok" ELSE "raised")
              /\ status' = "searching"
              /\ si' = IF ok THEN 1 ELSE 0
              /\ pc' = IF ok THEN "step" ELSE "except"
       ELSE /\ pc' = "checkpoint"
            /\ UNCHANGED <<calls, status, si>>
  /\ UNCHANGED <<params, subvars, runvars, surface, sheetvars, ghosts, paused, is_running, page,
                 session, li>>

\* lines 2423-2443: stop check before each step, then dispatch
StepHead ==
  /\ pc = "step"
  /\ IF si > Len(ordered)
       THEN /\ pc' = "checkpoint"
            /\ si' = 0
            /\ UNCHANGED <<status, stop_observed>>
       ELSE IF stop_event
         THEN /\ status' = "stop_exit_sheet"
              /\ stop_observed' = Observed
              /\ pc' = "checkpoint"
              /\ si' = 0
         ELSE /\ pc' = CASE ordered[si] = "add_services" -> "as_nav"
                          [] ordered[si] = "route_to_comp" -> "route"
                          [] ordered[si] = "create_bill" -> "create_bill"
                          [] ordered[si] = "put_prices" -> "put_prices"
              /\ UNCHANGED <<si, status, stop_observed>>
  /\ UNCHANGED <<params, subvars, runvars, surface, sheetvars, paused, is_running, page, session,
                 li, calls, stop_at_begin>>

\* a step executor raised: the exception leaves the sheet loop
Raised(op) ==
  /\ calls' = Logged(op, "raised")
  /\ si' = 0
  /\ li' = 0
  /\ pc' = "except"

\* a step executor returned: on to the next step
Returned(op) ==
  /\ calls' = Logged(op, "ok")
  /\ si' = si + 1
  /\ li' = 0
  /\ pc' = "step"

\* --------------------------------------------------- add_services_to_wo
\* lines 1097-1119: open the Actuals and Services tabs; return when the
\* sheet has no services table
AddServicesNav ==
  /\ pc = "as_nav"
  /\ \/ Raised("add_services_to_wo")
     \/ /\ services_data = 0
        /\ Returned("add_services_to_wo")
     \/ /\ services_data > 0
        /\ calls' = Logged("add_services_to_wo", "ok")
        /\ li' = 1
        /\ pc' = "as_line"
        /\ UNCHANGED si
  /\ UNCHANGED <<params, subvars, runvars, surface, sheetvars, ghosts, paused, is_running, page,
                 session, status>>

\* lines 1120-1150: head of the service-line loop: the stop check, the next
\* row of the table, then the quantity and item-code filters
AddServicesLine ==
  /\ pc = "as_line"
  /\ IF li > services_data
       THEN /\ pc' = "as_route"
            /\ UNCHANGED <<li, service, stop_observed>>
       ELSE IF stop_event
         THEN /\ stop_observed' = Observed
              /\ pc' = "as_route"
              /\ UNCHANGED <<li, service>>
         ELSE \E row \in ServiceLine :
                /\ IF SkipQuantity(row.qty) \/ SkipItem(row.item)
                     THEN /\ li' = li + 1
                          /\ pc' = "as_line"
                          /\ UNCHANGED service
                     ELSE /\ service' = row
                          /\ pc' = "as_single"
                          /\ UNCHANGED li
                /\ UNCHANGED stop_observed
  /\ UNCHANGED <<params, subvars, runvars, surface, total, idx, wo_number, services_data, ordered,
                 paused, is_running, page, session, status, si, calls,
                 stop_at_begin>>

\* add_services_to_wo: processed_services, the calls of add_single_service
\* made so far for the sheet
Submitted ==
  Cardinality({k \in 1..Len(calls) : calls[k].op = "add_single_service"})

\* line 1151 and add_single_service: returns False without touching the page
\* when the stop token is set on entry (lines 1182-1190), otherwise works on
\* the page and returns True or, on any error, False (lines 1639-1641)
AddSingleService ==
  /\ pc = "as_single"
  /\ ~PauseBlocks
  /\ IF stop_event
       THEN /\ calls' = Append(calls, Call("add_single_service", li, service,
                                           "stopped"))
            /\ stop_observed' = Observed
       ELSE /\ \E r \in {"ok", "failed"} :
                 calls' = Append(calls, Call("add_single_service", li, service,
                                             r))
            /\ UNCHANGED stop_observed
  /\ service' = NoService
  /\ progress' = InnerProgress(Submitted + 1, services_data)
  /\ li' = li + 1
  /\ pc' = "as_line"
  /\ UNCHANGED <<params, subvars, login_verified, skipped, surface, total, idx, wo_number, services_data, ordered,
                 paused, is_running, page, session, status, si, stop_at_begin>>

\* line 1158: add_services_to_wo ends by calling route_wo_to_comp; lines
\* 1159-1161 re-raise its error
AddServicesRoute ==
  /\ pc = "as_route"
  /\ \/ Raised("route_wo_to_comp")
     \/ Returned("route_wo_to_comp")
  /\ UNCHANGED <<params, subvars, runvars, surface, sheetvars, ghosts, paused, is_running, page,
                 session, status>>

\* ------------------------------------------- the other steps of the pipeline
\* lines 2429-2430 and route_wo_to_comp
RouteToComp ==
  /\ pc = "route"
  /\ \/ Raised("route_wo_to_comp")
     \/ Returned("route_wo_to_comp")
  /\ UNCHANGED <<params, subvars, runvars, surface, sheetvars, ghosts, paused, is_running, page,
                 session, status>>

\* lines 2431-2441: create_customer_bill, then save_bill_info, which writes
\* the sheet through update_excel_file once the batch id is known and
\* returns without writing when bill_batch is empty (lines 1874-1876)
CreateBill ==
  /\ pc = "create_bill"
  /\ \/ /\ Raised("create_customer_bill")
        /\ UNCHANGED status
     \/ /\ calls' = Logged("create_customer_bill", "ok")
        /\ si' = si + 1
        /\ pc' = "step"
        /\ UNCHANGED <<li, status>>
     \/ \E saved \in BOOLEAN :
          /\ calls' = Logged("create_customer_bill", "ok")
                        \o <<Call("update_excel_file", 0, NoService,
                                  IF saved THEN "ok" ELSE "failed")>>
          /\ status' = IF saved THEN "excel_updated" ELSE "excel_failed"
          /\ si' = si + 1
          /\ pc' = "step"
          /\ UNCHANGED li
  /\ UNCHANGED <<params, subvars, runvars, surface, sheetvars, ghosts, paused, is_running, page,
                 session>>

\* lines 2442-2447: process_customer_bill (check_pause first), then once more
\* save_bill_changes, whose error is swallowed
PutPrices ==
  /\ pc = "put_prices"
  /\ ~PauseBlocks
  /\ \/ Raised("process_customer_bill")
     \/ Returned("process_customer_bill")
  /\ UNCHANGED <<params, subvars, runvars, surface, sheetvars, ghosts, paused, is_running, page,
                 session, status>>

\* a worker that moves on to the next sheet without update_excel_file
Checkpoint_Skipped ==
  /\ pc = "checkpoint"
  /\ progress' = JobProgress(idx, total)
  /\ idx' = idx + 1
  /\ pc' = "loop"
  /\ UNCHANGED <<params, subvars, login_verified, skipped, surface, ghosts, paused,
                 is_running, page, session, status, calls, total, wo_number,
                 services_data, service, ordered, si, li>>

\* lines 2448-2455: update_excel_file (with or without a page), then
\* set_progress(idx/total) and on to the next sheet
Checkpoint ==
  /\ pc = "checkpoint"
  /\ \E saved \in BOOLEAN :
       /\ calls' = Logged("update_excel_file",
                          IF saved THEN "ok" ELSE "failed")
       /\ status' = IF saved THEN "excel_updated" ELSE "excel_failed"
  /\ progress' = JobProgress(idx, total)
  /\ idx' = idx + 1
  /\ pc' = "loop"
  /\ UNCHANGED <<params, subvars, login_verified, skipped, surface, ghosts, paused, is_running, page, session,
                 total, wo_number, services_data, service, ordered, si, li>>

\* ------------------------------------------------ run_automation: the end
\* lines 2457-2458: reached when the loop ends or is left by break
Complete ==
  /\ pc = "complete"
  /\ status' = "complete"
  /\ pc' = "finally"
  /\ UNCHANGED <<params, subvars, runvars, surface, sheetvars, ghosts, paused, is_running, page,
                 session, si, li, calls>>

\* lines 2459-2461: any exception raised inside the try block
Except ==
  /\ pc = "except"
  /\ status' = "error"
  /\ pc' = "finally"
  /\ UNCHANGED <<params, subvars, runvars, surface, sheetvars, ghosts, paused, is_running, page,
                 session, si, li, calls>>

\* a worker that releases the session only when the run completed
Finally_OnlyOnSuccess ==
  /\ pc = "finally"
  /\ session' = IF page /\ status = "complete" THEN "closed" ELSE session
  /\ is_running' = FALSE
  /\ pc' = "done"
  /\ UNCHANGED <<params, subvars, runvars, surface, sheetvars, ghosts, paused, page, status, si,
                 li, calls>>

\* lines 2462-2467 and close_browser: release whatever handles were obtained
Finally ==
  /\ pc = "finally"
  /\ session' = IF page THEN "closed" ELSE session
  /\ is_running' = FALSE
  /\ pc' = "done"
  /\ UNCHANGED <<params, subvars, runvars, surface, sheetvars, ghosts, paused, page, status, si,
                 li, calls>>

\* ------------------------------------------------ the interactive surface
\* on_pause: toggles st.session_state["paused"]
OnPause ==
  /\ pc # "done"
  /\ ui_paused' = ~ui_paused
  /\ UNCHANGED <<pc, params, subvars, runvars, sheetvars, ghosts, stop_event, stop_sheet, paused,
                 is_running, page, session, status, si, li, calls>>

\* on_stop: sets the stop event of the run
OnStop ==
  /\ pc # "done"
  /\ ~stop_event
  /\ stop_event' = TRUE
  /\ status' = "stop_requested"
  /\ stop_sheet' = IF pc \in PipelinePcs THEN idx ELSE 0
  /\ UNCHANGED <<pc, params, subvars, runvars, sheetvars, ghosts, ui_paused, paused, is_running,
                 page, session, si, li, calls>>

Worker ==
  \/ Begin \/ EarlyStopCheck \/ SetupBrowser \/ Login \/ ReadExcel
  \/ LoopHead \/ ParseSheet \/ Search \/ StepHead
  \/ AddServicesNav \/ AddServicesLine \/ AddSingleService \/ AddServicesRoute
  \/ RouteToComp \/ CreateBill \/ PutPrices \/ Checkpoint
  \/ Complete \/ Except \/ Finally

Next == Worker \/ OnPause \/ OnStop

Spec == Init /\ [][Next]_vars

\* ------------------------------------------------------------ properties
Range(seq) == {seq[k] : k \in 1..Len(seq)}

\* the place of a stage in the canonical sequence
Rank(s) ==
  CASE s = "add_services" -> 1
    [] s = "route_to_comp" -> 2
    [] s = "create_bill" -> 3
    [] s = "put_prices" -> 4

\* the stage a logged step executor belongs to
StageOf(op) ==
  CASE op = "add_services_to_wo" -> "add_services"
    [] op = "route_wo_to_comp" -> "route_to_comp"
    [] op = "create_customer_bill" -> "create_bill"
    [] op = "process_customer_bill" -> "put_prices"

StageOps == {"add_services_to_wo", "route_wo_to_comp", "create_customer_bill",
             "process_customer_bill"}

IsStageCall(c) == c.op \in StageOps

\* the stages executed for the current sheet, in the order of the call log
ExecutedStages ==
  LET sc == SelectSeq(calls, IsStageCall)
  IN [k \in 1..Len(sc) |-> StageOf(sc[k].op)]

IsPrefix(a, b) == Len(a) <= Len(b) /\ \A k \in 1..Len(a) : a[k] = b[k]

\* some step executor of the current sheet raised
StageFailed == \E k \in 1..Len(calls) :
                 IsStageCall(calls[k]) /\ calls[k].result = "raised"

\* a row the Job invariant excludes: quantity 0 or missing, item code empty
Excluded(row) ==
  \/ row.qty = 0 \/ row.qty = NaNQty
  \/ row.item = "" \/ row.item = " " \/ row.item = NaNItem

\* C1: once the stage list of a sheet is computed it holds exactly the
\* selected stages that do not lie before start_at (before the first stage
\* when start_at is unknown), in canonical order; start_at = create_bill with
\* {add_services, create_bill, put_prices} selected gives
\* [create_bill, put_prices].
C1_EffectiveStageList ==
  pc \in PipelinePcs =>
    LET first == IF start_at \in StageNames THEN Rank(start_at) ELSE 1
    IN /\ \A k \in 1..Len(ordered) :
            ordered[k] \in selected_steps /\ Rank(ordered[k]) >= first
       /\ \A s \in selected_steps : Rank(s) >= first => s \in Range(ordered)
       /\ \A k \in 1..(Len(ordered) - 1) : Rank(ordered[k]) < Rank(ordered[k+1])
       /\ (start_at = "create_bill"
            /\ selected_steps = {"add_services", "create_bill", "put_prices"})
           => ordered = <<"create_bill", "put_prices">>

C1_Witness ==
  /\ pc = "step"
  /\ start_at = "create_bill"
  /\ selected_steps = {"add_services", "create_bill", "put_prices"}
  /\ ordered = <<"create_bill", "put_prices">>

\* C2: the step executors run for a sheet are, in order, the first stages of
\* its effective stage list: none runs twice, none runs that is unselected
\* or lies before start_at.
C2_ExecutedAreEffective == IsPrefix(ExecutedStages, ordered)

\* C3: a run in which a step executor raised for a sheet that is not the
\* last one, and that was not stopped, does not end there.
C3_JobFailureContinues ==
  (StageFailed /\ idx < total /\ ~stop_event) => pc # "done"

\* C4: when a step executor raised for a sheet, update_excel_file is invoked
\* for that sheet afterwards.
C4_CheckpointAfterStageError ==
  (pc = "done" /\ StageFailed) =>
    \E k \in 1..Len(calls) : \E j \in (k+1)..Len(calls) :
      /\ IsStageCall(calls[k]) /\ calls[k].result = "raised"
      /\ calls[j].op = "update_excel_file"

\* C5: after a stop requested while the pipeline of a sheet was running, no
\* later sheet is worked on, and the run ends with update_excel_file as the
\* last call made for that sheet.
C5_StopCheckpointsJob ==
  stop_sheet # 0 =>
    /\ pc \in JobPcs => idx = stop_sheet
    /\ pc = "done" =>
         calls # <<>> /\ calls[Len(calls)].op = "update_excel_file"

\* C6: once the worker has seen the stop token set, it calls no routing,
\* bill-creation or price-sync executor for that sheet.
C6_NoStageAfterStopSeen ==
  stop_observed # -1 =>
    \A k \in (stop_observed + 1)..Len(calls) :
      calls[k].op \notin {"route_wo_to_comp", "create_customer_bill",
                          "process_customer_bill"}

\* C7: while pause is on (and no stop is requested) a worker that is about to
\* add a service line makes no call to the browser.
C7_PausedWorkerHalts ==
  [][(pc = "as_single" /\ ui_paused /\ ~stop_event) => calls' = calls]_vars

\* C8: add_single_service is never called for a row with quantity 0 or
\* missing or with an empty item code.
C8_ExcludedNeverSubmitted ==
  \A k \in 1..Len(calls) :
    calls[k].op = "add_single_service" => ~Excluded(calls[k].row)

\* C9: when the stop token was set as run_automation began, the worker never
\* gets past the early stop check: no browser session, no sheet, no call.
C9_StopBeforeStart ==
  stop_at_begin =>
    /\ pc \in {"early_stop", "finally", "done"}
    /\ ~page
    /\ session = "none"
    /\ idx = 0
    /\ calls = <<>>

C9_Witness ==
  /\ pc = "done"
  /\ stop_at_begin
  /\ status = "stopped_before_browser"

\* C10: a run that obtained a browser session has closed it when the worker
\* has ended.
C10_SessionReleased ==
  (pc = "done" /\ page) => session = "closed"

C10_Witness ==
  /\ pc = "done"
  /\ page
  /\ session = "closed"
  /\ StageFailed

\* the last call made for the current sheet raised
LastRaised == calls # <<>> /\ calls[Len(calls)].result = "raised"

\* the worker has ended and the sheet loop was left by its stop check: some
\* sheet was not iterated although nothing raised
EndedByStop == pc = "done" /\ total > 0 /\ idx <= total /\ ~LastRaised

\* C11: a run that a stop request ended has "stopped" as its last status, a
\* run ended by an error "failed", and only a run that iterated every sheet
\* "completed": when the sheet loop was left by the stop check, the status
\* the run ends with is the stopped one.
C11_TerminalStatus ==
  /\ EndedByStop => status = "stopped_between_sheets"
  /\ (pc = "done" /\ LastRaised) => status = "error"

\* C12: when perform_login ended without verify_login_success returning
\* True, the run is aborted: with a page, the worker goes on from the login
\* to the workbook and its sheets only after a verified login.
C12_LoginFailureFatal ==
  (page /\ pc = "read_excel") => login_verified

\* the worker is inside the step loop of a sheet
StagePcs == {"step", "as_nav", "as_line", "as_single", "as_route", "route",
             "create_bill", "put_prices"}

\* C13 as stated: without a page the run is aborted: the worker enters no
\* sheet, update_excel_file is never called and the run does not report
\* completion.
C13_NoPageAborts ==
  ~page => (pc \notin PipelinePcs /\ calls = <<>> /\ status # "complete")

\* C13, amended: without a page no login is verified, no work order is
\* searched and no step executor is called; the only call made for a sheet
\* is update_excel_file, and it is made for every sheet that has a WO number.
C13_NoPageNoBrowserCall ==
  ~page =>
    /\ ~login_verified
    /\ pc \notin StagePcs
    /\ \A k \in 1..Len(calls) : calls[k].op = "update_excel_file"
    /\ (pc = "loop" /\ idx > 1 /\ (idx - 1) \notin skipped) =>
         (Len(calls) = 1 /\ calls[1].op = "update_excel_file")

C13_Witness ==
  /\ pc = "done"
  /\ ~page
  /\ idx > total
  /\ calls # <<>>
  /\ calls[Len(calls)].op = "update_excel_file"
  /\ status = "complete"

IsCheckpoint(c) == c.op = "update_excel_file"

CompletedJobs == IF idx = 0 THEN 0 ELSE idx - 1

\* C16 as stated: from the start of the run on, the progress indicator
\* holds completedJobs / totalJobs (0 while no workbook is open).
C16_ProgressIsCompletedOverTotal ==
  pc # "init" =>
    IF total = 0 THEN progress[1] = 0
    ELSE progress[1] * total = CompletedJobs * progress[2]

\* C16, amended: progress is 0 from the start of the run, is idx/total
\* whenever a sheet has just been finished, and in between is overwritten
\* by add_services_to_wo with min(0.99, processed / total_services) after
\* each line it submitted.
C16_ProgressWrites ==
  /\ (pc # "init" /\ total = 0) => progress = <<0, 1>>
  /\ (pc = "loop" /\ idx > 1) => progress = <<idx - 1, total>>
  /\ (pc \in JobPcs /\ Submitted = 0) =>
       progress = IF idx = 1 THEN <<0, 1>> ELSE <<idx - 1, total>>
  /\ (pc \in PipelinePcs /\ Submitted > 0) =>
       progress = IF Submitted = services_data THEN <<99, 100>>
                  ELSE <<Submitted, services_data>>

C16_Witness ==
  /\ pc = "as_line"
  /\ idx = 1
  /\ total = 1
  /\ services_data = 2
  /\ Submitted = 1
  /\ progress = <<1, 2>>

\* C21: once add_single_service has failed for a row, the AddServices stage
\* is over for the sheet: no further row is submitted and no step executor
\* (route_wo_to_comp included) is called for the sheet after it.
C21_LineFailureAbortsStage ==
  \A k \in 1..Len(calls) :
    (calls[k].op = "add_single_service" /\ calls[k].result = "failed") =>
      \A j \in (k + 1)..Len(calls) :
        calls[j].op # "add_single_service" /\ ~IsStageCall(calls[j])

\* C33: setup_browser is reached once per run, from the early stop check
\* only; the page handle and the session it returned change nowhere else
\* until the finally clause releases them; the sheet index goes up by one at
\* a time, and only when the sheet was skipped or its pipeline is over (no
\* stage and no service line is in progress).
C33_OneSessionJobsInOrder ==
  [][/\ (pc' = "setup" /\ pc # "setup") => pc = "early_stop"
     /\ (pc' = "early_stop" /\ pc # "early_stop") => pc = "init"
     /\ pc' = "init" => pc = "init"
     /\ page' # page => pc = "setup"
     /\ session' # session => pc \in {"setup", "finally"}
     /\ idx' # idx =>
          /\ idx' = idx + 1
          /\ pc \in {"read_excel", "parse", "checkpoint"}
          /\ pc' = "loop"
          /\ si' = 0 /\ li' = 0 /\ service' = NoService]_vars

\* two sheets were processed, one after the other, in the one session
C33_Witness ==
  /\ pc = "done"
  /\ total = 2
  /\ idx = 3
  /\ session = "closed"
  /\ status = "complete"
  /\ \E k \in 1..Len(calls) : IsStageCall(calls[k]) /\ calls[k].result = "ok"

\* the places where the worker is about to call check_pause
PausePoints == {"as_single", "put_prices"}

\* C35: while pause is on and no stop is requested, a worker that has come
\* to a pause check is blocked there: it makes no call to the browser, does
\* not move on, and does not release the browser session.
C35_PausedWorkerBlocked ==
  [][(ui_paused /\ ~stop_event /\ pc \in PausePoints) =>
       (calls' = calls /\ pc' = pc /\ session' = session)]_vars

\* C36: no step of a run lowers the reported progress, and every value it
\* takes lies between 0 and 1.
C36_ProgressNeverDecreases ==
  [][/\ progress'[1] * progress[2] >= progress[1] * progress'[2]
     /\ 0 <= progress'[1] /\ progress'[1] <= progress'[2]]_vars

\* C37: whenever a stage runs or a checkpoint is written for a sheet, the
\* work-order number in use was read from that sheet.
C37_OwnHeaderOnly == pc \in PipelinePcs => wo_number = idx

\* ================================================= enter_services_prices
\* pandas NaN in the "Total Price" column
NaNPrice == -1
\* self.services_data as enter_services_prices reads it ("Service Item" and
\* "Total Price" of each row); the tables tried: none; one priced row; a row without item code
\* and a row without price; the same code twice; two codes
PriceTables ==
  {<<>>,
   <<[item |-> "IS1", price |-> 5]>>,
   <<[item |-> "", price |-> 5], [item |-> "IS1", price |-> NaNPrice]>>,
   <<[item |-> "IS1", price |-> NaNPrice], [item |-> "IS1", price |-> 5]>>,
   <<[item |-> "IS2", price |-> 5], [item |-> "IS1", price |-> 5]>>}
\* item codes page.evaluate returns: rows without a code starting with "IS"
\* or without a price input are filtered out by the script
PageCodes == {"IS1", "IS2"}
\* what a price input holds before enter_services_prices touches it
OldValue == "old"

SeqsUpTo(S, n) == UNION {[1..k -> S] : k \in 0..n}

\* the price inputs of the result pages, by (page number, row)
InputIds == {<<n, r>> : n \in 1..MaxPages, r \in 1..MaxRows}

\* lines 478-484: excel_services_map; a later row replaces an earlier one
RECURSIVE ExcelServicesMap(_, _)
ExcelServicesMap(table, k) ==
  IF k = 0 THEN <<>>
  ELSE LET m == ExcelServicesMap(table, k - 1)
           r == table[k]
       IN IF Truthy(r.item) THEN (r.item :> r.price) @@ m ELSE m

\* str(excel_price)
PriceStr(x) == IF x = NaNPrice THEN "nan" ELSE ToString(x)

\* lines 520-555: the value written into the input of a row
NewValue_ZeroAlways(m, code) == "0.00"

NewValue(m, code) ==
  IF code \in DOMAIN m THEN PriceStr(m[code]) ELSE "0.00"

\* line 513: service_code in processed_services
AlreadyProcessed_Never(code, done) == FALSE

AlreadyProcessed(code, done) == code \in done

InitPrices ==
  /\ excel_path = TRUE
  /\ selected_steps = {"put_prices"}
  /\ start_at = "put_prices"
  /\ RunIdle
  /\ PutIdle
  /\ ExcelIdle
  /\ LifeIdle
  /\ SaveIdle
  /\ BatchIdle
  /\ RouteIdle
  /\ QtyIdle
  /\ BillIdle
  /\ LadderIdle
  /\ ep_pc = "ep_start"
  /\ price_table \in PriceTables
  /\ pages \in [1..MaxPages -> SeqsUpTo(PageCodes, MaxRows)]
            \cup [1..1 -> SeqsUpTo(PageCodes, MaxRows)]
  /\ fields = [i \in InputIds |-> OldValue]
  /\ page_number = 0
  /\ ri = 0
  /\ processed_services = {}
  /\ writes = <<>>
  /\ all_ok = TRUE
  /\ ep_call = 1
  /\ fields_first = <<>>

\* lines 466-475: check_pause, click the Services tab (a failure is
\* re-raised at lines 587-589), page_number = 1, processed_services = set()
EpStart ==
  /\ ep_pc = "ep_start"
  /\ \/ /\ ep_pc' = "ep_raised"
        /\ all_ok' = FALSE
        /\ UNCHANGED <<page_number, processed_services, writes>>
     \/ /\ ep_pc' = "ep_page"
        /\ page_number' = 1
        /\ processed_services' = {}
        /\ writes' = <<>>
        /\ UNCHANGED all_ok
  /\ UNCHANGED <<notprices, price_table, pages, fields, ri, ep_call,
                 fields_first>>

\* lines 486-505: scrape the rows of the page; break when there is none
EpPage ==
  /\ ep_pc = "ep_page"
  /\ IF pages[page_number] = <<>>
       THEN /\ ep_pc' = "ep_done"
            /\ UNCHANGED ri
       ELSE /\ ep_pc' = "ep_row"
            /\ ri' = 1
  /\ UNCHANGED <<notprices, price_table, pages, fields, page_number,
                 processed_services, writes, all_ok, ep_call, fields_first>>

\* lines 509-563: one row of the page: skip a code already processed, else
\* write the mapped price or 0.00; an exception leaves the row as it is
EpRow ==
  /\ ep_pc = "ep_row"
  /\ IF ri > Len(pages[page_number])
       THEN /\ ep_pc' = "ep_next"
            /\ ri' = 0
            /\ UNCHANGED <<fields, processed_services, writes, all_ok>>
       ELSE LET code == pages[page_number][ri]
                m == ExcelServicesMap(price_table, Len(price_table))
            IN /\ ep_pc' = "ep_row"
               /\ ri' = ri + 1
               /\ IF AlreadyProcessed(code, processed_services)
                    THEN UNCHANGED <<fields, processed_services, writes,
                                     all_ok>>
                    ELSE \/ /\ fields' = [fields EXCEPT
                                            ![<<page_number, ri>>] =
                                              NewValue(m, code)]
                            /\ writes' = Append(writes, code)
                            /\ processed_services' =
                                 processed_services \cup {code}
                            /\ UNCHANGED all_ok
                         \/ /\ code \in DOMAIN m
                            /\ processed_services' =
                                 processed_services \cup {code}
                            /\ all_ok' = FALSE
                            /\ UNCHANGED <<fields, writes>>
                         \/ /\ all_ok' = FALSE
                            /\ UNCHANGED <<fields, writes,
                                           processed_services>>
  /\ UNCHANGED <<notprices, price_table, pages, page_number, ep_call,
                 fields_first>>

\* line 566: the next-page button is there, visible and its image is not
\* the 'off' one: so it is on every page but the last
NextEnabled(pp, n) == n < Len(pp)

\* a pagination that forgets the processed item codes when it turns the page
EpNext_ForgetsProcessed ==
  /\ ep_pc = "ep_next"
  /\ IF ~NextEnabled(pages, page_number)
       THEN /\ ep_pc' = "ep_done"
            /\ UNCHANGED <<page_number, all_ok, processed_services>>
       ELSE \/ /\ ep_pc' = "ep_page"
               /\ page_number' = page_number + 1
               /\ processed_services' = {}
               /\ UNCHANGED all_ok
            \/ /\ ep_pc' = "ep_done"
               /\ all_ok' = FALSE
               /\ UNCHANGED <<page_number, processed_services>>
  /\ UNCHANGED <<notprices, price_table, pages, fields, ri,
                 writes, ep_call, fields_first>>

\* lines 565-577: the next-page button; break when it is absent, hidden or
\* disabled and when the click raises, else click it and go on
EpNext ==
  /\ ep_pc = "ep_next"
  /\ IF ~NextEnabled(pages, page_number)
       THEN /\ ep_pc' = "ep_done"
            /\ UNCHANGED <<page_number, all_ok>>
       ELSE \/ /\ ep_pc' = "ep_page"
               /\ page_number' = page_number + 1
               /\ UNCHANGED all_ok
            \/ /\ ep_pc' = "ep_done"
               /\ all_ok' = FALSE
               /\ UNCHANGED page_number
  /\ UNCHANGED <<notprices, price_table, pages, fields, ri,
                 processed_services, writes, ep_call, fields_first>>

\* enter_services_prices is called once more after a call in which nothing
\* failed, on the same pages with the same services_data
EpAgain ==
  /\ ep_pc = "ep_done"
  /\ ep_call = 1
  /\ all_ok
  /\ ep_call' = 2
  /\ fields_first' = fields
  /\ ep_pc' = "ep_start"
  /\ UNCHANGED <<notprices, price_table, pages, fields, page_number, ri,
                 processed_services, writes, all_ok>>

\* a process_customer_bill that may save while the pages are being walked
PcbSave_BetweenPages ==
  /\ ep_pc \in {"ep_done", "ep_next"}
  /\ \E clicked \in BOOLEAN :
       ep_pc' = IF clicked THEN "pcb_saved" ELSE "pcb_raised"
  /\ UNCHANGED <<notprices, price_table, pages, fields, page_number, ri,
                 processed_services, writes, all_ok, ep_call, fields_first>>

\* process_customer_bill, lines 1029-1034: save_bill_changes once
\* enter_services_prices has returned; its error is re-raised
PcbSave ==
  /\ ep_pc = "ep_done"
  /\ \E clicked \in BOOLEAN :
       ep_pc' = IF clicked THEN "pcb_saved" ELSE "pcb_raised"
  /\ UNCHANGED <<notprices, price_table, pages, fields, page_number, ri,
                 processed_services, writes, all_ok, ep_call, fields_first>>

NextPrices == EpStart \/ EpPage \/ EpRow \/ EpNext \/ EpAgain \/ PcbSave

SpecPrices == InitPrices /\ [][NextPrices]_vars

\* the worker thread keeps running: nothing in process_customer_bill waits
\* for anything but the page (automation.paused is False here)
SpecPricesLive == SpecPrices /\ WF_vars(NextPrices)

\* the rows the result pages show, as (page number, row)
PageRows == {i \in InputIds : i[1] <= Len(pages) /\ i[2] <= Len(pages[i[1]])}

CodeAt(i) == pages[i[1]][i[2]]

\* row i comes before row j in the order the pages are walked
Before(i, j) == i[1] < j[1] \/ (i[1] = j[1] /\ i[2] < j[2])

\* the price the sheet gives for an item code: the Total Price of the last
\* row of the services table with that code; 0.00 when there is none
ExpectedValue(code) ==
  LET ks == {k \in 1..Len(price_table) : price_table[k].item = code}
  IN IF ks = {} THEN "0.00"
     ELSE LET last == CHOOSE k \in ks : \A j \in ks : j <= k
          IN IF price_table[last].price = NaNPrice THEN "nan"
             ELSE ToString(price_table[last].price)

\* the first call has walked every result page and nothing failed
FullPass ==
  /\ ep_pc = "ep_done"
  /\ ep_call = 1
  /\ all_ok
  /\ page_number = Len(pages)

\* C17 as stated: after a call that walked all pages with every write
\* succeeding, every row holds the mapped price of its item code, or 0.00
\* when the code is not in the map; none holds its previous value.
C17_EveryRowPriced ==
  FullPass => \A i \in PageRows : fields[i] = ExpectedValue(CodeAt(i))

\* C17, amended: after such a call the first row of each item code holds the
\* mapped price of the code, or 0.00 when the code is not in the map; a
\* further row with the same item code is not written and keeps its
\* previous value.
C17_FirstRowPerCodePriced ==
  FullPass =>
    \A i \in PageRows :
      IF \E j \in PageRows : Before(j, i) /\ CodeAt(j) = CodeAt(i)
        THEN fields[i] = OldValue
        ELSE fields[i] = ExpectedValue(CodeAt(i))

C17_Witness ==
  /\ FullPass
  /\ Len(pages) = 2
  /\ \E i, j, k \in PageRows :
       /\ fields[i] = "5"
       /\ fields[j] = "0.00"
       /\ k[1] = 2 /\ fields[k] = OldValue

\* C18: a second call over the same pages with the same services table, no
\* page call failing, leaves every price input with the value the first
\* call left; and no call writes the input of an item code twice.
C18_Idempotent ==
  /\ (ep_pc = "ep_done" /\ ep_call = 2 /\ all_ok) => fields = fields_first
  /\ \A a, b \in 1..Len(writes) : a # b => writes[a] # writes[b]

C18_Witness ==
  /\ ep_pc = "ep_done"
  /\ ep_call = 2
  /\ all_ok
  /\ page_number = 2
  /\ Len(writes) = 2
  /\ \E i, j \in PageRows : i # j /\ CodeAt(i) = CodeAt(j)
  /\ \E i \in PageRows : fields[i] = "5"
  /\ fields = fields_first

\* process_customer_bill with the Stop button: one call over a services
\* table of one row, during which on_stop may set the stop event
InitPricesStop == InitPrices /\ Len(price_table) = 1

NextPricesStop ==
  EpStart \/ EpPage \/ EpRow \/ EpNext \/ PcbSave \/ OnStop

SpecPricesStop == InitPricesStop /\ [][NextPricesStop]_vars

\* process_customer_bill is over
PcbEnded == ep_pc \in {"pcb_saved", "pcb_raised", "ep_raised"}

\* the page loop was left: the page had no service row, or the next-page
\* button was not enabled, or a page call raised
LoopLeft ==
  \/ pages[page_number] = <<>>
  \/ ~NextEnabled(pages, page_number)
  \/ ~all_ok

\* C28 as stated: the page loop goes on exactly when the next-page control
\* is enabled: when no page call raised it ends on a page whose control is
\* absent, invisible or disabled.
C28_StopsOnlyWhenNextDisabled ==
  (ep_pc = "ep_done" /\ all_ok) => ~NextEnabled(pages, page_number)

\* C28, amended: a further page is opened only from a page that had service
\* rows and an enabled next-page control; when no page call raised, the
\* loop ends on the first page that has no service row or no enabled
\* control; save_bill_changes is called only after the loop was left; and
\* process_customer_bill comes to an end.
C28_PaginationEndsThenSave ==
  /\ [](ep_pc \in {"ep_page", "ep_row", "ep_next"} =>
         \A n \in 1..(page_number - 1) :
           pages[n] # <<>> /\ NextEnabled(pages, n))
  /\ []((ep_pc = "ep_done" /\ all_ok) =>
         (pages[page_number] = <<>> \/ ~NextEnabled(pages, page_number)))
  /\ [](ep_pc \in {"pcb_saved", "pcb_raised"} => LoopLeft)
  /\ <>PcbEnded

C28_Witness ==
  /\ ep_pc = "pcb_saved"
  /\ all_ok
  /\ Len(pages) = 2
  /\ page_number = 2
  /\ Len(writes) = 2

\* C29: once the stop event is set, enter_services_prices starts no further
\* row and opens no further page: no price input is written and the page
\* number does not change in a step taken inside the page loop after the
\* request.
C29_NoWorkAfterStop ==
  [][(stop_event /\ ep_pc \in {"ep_page", "ep_row", "ep_next"}) =>
       (fields' = fields /\ page_number' = page_number)]_vars

\* C27: within one call an item code is written at most once, whatever the
\* page its rows are on: once the input of a row was written, every other
\* row with the same item code, on the same or on a later page, keeps its
\* previous value.
C27_OneWritePerCode ==
  ep_call = 1 =>
    \A i, j \in PageRows :
      (i # j /\ CodeAt(i) = CodeAt(j) /\ fields[i] # OldValue) =>
        fields[j] = OldValue

C27_Witness ==
  /\ ep_call = 1
  /\ ep_pc = "ep_done"
  /\ pages = <<(<<"IS1">>), (<<"IS2", "IS1">>)>>
  /\ page_number = 2
  /\ processed_services = {"IS1", "IS2"}
  /\ fields[<<1, 1>>] # OldValue
  /\ fields[<<2, 1>>] # OldValue
  /\ fields[<<2, 2>>] = OldValue

\* ======================================= create_customer_bill: the bill name
\* A text is a sequence of pieces; its characters are the pieces put
\* together.  None is a text of its own.
NoneText == <<"<None>">>
\* line 1959: "To be stored" and its Arabic form (transliterated here)
Placeholders == {"To be stored", "<sayatimm al-takhzin>"}
Tokens == {"Pump Repair", " "} \cup Placeholders
DescValues == {NoneText} \cup SeqsUpTo(Tokens, MaxTokens)
OriginalValues == {NoneText, <<>>, <<" ">>, <<"Valve Svc">>}
WoNumbers == {"1001", "7"}
Months == 1..12
Years == {2009, 2025}

\* bool(text): None and '' are falsy
TextTruthy(t) == t # NoneText /\ t # <<>>

\* text.strip() == ""
StripsToEmpty(t) == \A k \in 1..Len(t) : t[k] = " "

\* "To be stored" in text or its Arabic form in text
HasPlaceholder(t) == \E k \in 1..Len(t) : t[k] \in Placeholders

\* strftime("%b").upper()
month_abbr(m) ==
  <<"JAN", "FEB", "MAR", "APR", "MAY", "JUN",
    "JUL", "AUG", "SEP", "OCT", "NOV", "DEC">>[m]

\* strftime("%y"): the year of the century, two digits
year_short(y) ==
  IF y % 100 < 10 THEN "0" \o ToString(y % 100) ELSE ToString(y % 100)

\* lines 1958-1963: description_for_bill
description_for_bill_NoPlaceholder(desc, orig, wo) ==
  IF ~TextTruthy(desc) \/ StripsToEmpty(desc)
    THEN IF TextTruthy(orig) THEN orig ELSE <<"WO-", wo>>
    ELSE desc

description_for_bill(desc, orig, wo) ==
  IF ~TextTruthy(desc) \/ StripsToEmpty(desc) \/ HasPlaceholder(desc)
    THEN IF TextTruthy(orig) THEN orig ELSE <<"WO-", wo>>
    ELSE desc

\* the characters of a text
RECURSIVE Render(_)
Render(t) == IF t = <<>> THEN "" ELSE Head(t) \o Render(Tail(t))

\* line 1965:
\* bill_name = f"{description_for_bill}-{self.wo_number}-M{month_abbr}{year_short}"
BillNameOf(desc, orig, wo, m, y) ==
  Render(description_for_bill(desc, orig, wo)
           \o <<"-", wo, "-M", month_abbr(m), year_short(y)>>)

InitBill ==
  /\ excel_path = TRUE
  /\ selected_steps = {"create_bill"}
  /\ start_at = "create_bill"
  /\ RunIdle
  /\ PutIdle
  /\ ExcelIdle
  /\ LifeIdle
  /\ SaveIdle
  /\ BatchIdle
  /\ RouteIdle
  /\ QtyIdle
  /\ PricesIdle
  /\ LadderIdle
  /\ bill_pc = "inputs"
  /\ wo_description \in DescValues
  /\ excel_original_description \in OriginalValues
  /\ bill_wo_number \in WoNumbers
  /\ now_month \in Months
  /\ now_year \in Years
  /\ bill_name = ""

\* lines 1951-1968: compute the bill name and fill it into the input
NameBill ==
  /\ bill_pc = "inputs"
  /\ bill_name' = BillNameOf(wo_description, excel_original_description,
                             bill_wo_number, now_month, now_year)
  /\ bill_pc' = "named"
  /\ UNCHANGED <<notbill, wo_description, excel_original_description,
                 bill_wo_number, now_month, now_year>>

NextBill == NameBill

SpecBill == InitBill /\ [][NextBill]_vars

\* the live description cannot be used: None, empty, blank, or a placeholder
LiveUnusable ==
  \/ wo_description = NoneText
  \/ \A k \in 1..Len(wo_description) : wo_description[k] = " "
  \/ \E k \in 1..Len(wo_description) :
       wo_description[k] \in {"To be stored", "<sayatimm al-takhzin>"}

OriginalEmpty == excel_original_description \in {NoneText, <<>>}

\* C19: the bill name is {description}-{wo}-M{MONTH}{yy}; the description is
\* the live one unless that is empty or holds a placeholder, then the
\* original one, and WO-{wo} when that is empty too.  ("Pump Repair", 1001,
\* Jan 25) gives Pump Repair-1001-MJAN25, a placeholder with original
\* "Valve Svc" gives Valve Svc-1001-MJAN25, both empty WO-1001-1001-MJAN25.
C19_BillNameFormat ==
  bill_pc = "named" =>
    LET d == IF ~LiveUnusable THEN Render(wo_description)
             ELSE IF ~OriginalEmpty THEN Render(excel_original_description)
             ELSE "WO-" \o bill_wo_number
        jan25 == bill_wo_number = "1001" /\ now_month = 1 /\ now_year = 2025
    IN /\ bill_name = d \o "-" \o bill_wo_number \o "-M"
                         \o month_abbr(now_month) \o year_short(now_year)
       /\ (jan25 /\ wo_description = <<"Pump Repair">>)
            => bill_name = "Pump Repair-1001-MJAN25"
       /\ (jan25 /\ wo_description \in {<<>>, <<"To be stored">>}
             /\ excel_original_description = <<"Valve Svc">>)
            => bill_name = "Valve Svc-1001-MJAN25"
       /\ (jan25 /\ wo_description = <<>> /\ OriginalEmpty)
            => bill_name = "WO-1001-1001-MJAN25"

C19_Witness ==
  /\ bill_pc = "named"
  /\ wo_description = <<"Pump Repair", "To be stored">>
  /\ excel_original_description = <<"Valve Svc">>
  /\ bill_name = "Valve Svc-7-MDEC09"

\* ============================================ element-resolution ladders
\* save_bill_changes (selectors), click_route_button (the specific id, then
\* route_selectors), add_single_service (search field, checkbox, OK button,
\* quantity field)
ClickLadders == {"save", "route"}
FindLadders == {"search_field", "checkbox", "ok_button", "quantity"}
\* the find ladders of add_single_service that end, on their last attempt,
\* with a scripted search for the control
ScriptedFindLadders == {"checkbox", "ok_button"}

\* quantity_selectors: three candidates
quantity_selectors == 3

\* number of declared candidates of a ladder
Candidates(l) ==
  CASE l = "save" -> 6
    [] l = "route" -> 7
    [] l = "search_field" -> 12
    [] l = "checkbox" -> 10
    [] l = "ok_button" -> 10
    [] l = "quantity" -> quantity_selectors

\* save_bill_changes: max_attempts = 3
max_attempts == 3

\* what acting on a candidate ends in: the click works; the click raises
\* and (save_bill_changes only) the scripted click on the same selector
\* works; everything raises
ClickResults(l) ==
  IF l = "save" THEN {"ok", "js_ok", "raises"} ELSE {"ok", "raises"}

\* first index of 1..n that is visible, 0 when there is none
FirstVisible(n, vis) ==
  IF \E i \in 1..n : vis[i]
    THEN CHOOSE i \in 1..n : vis[i] /\ \A j \in 1..(i - 1) : ~vis[j]
    ELSE 0

\* one pass of a click ladder from candidate i on: the candidates acted on,
\* in order; a visible candidate is clicked, and the pass goes on to the
\* next candidate only when acting on it raised
RECURSIVE ClickFrom(_, _, _, _)
ClickFrom_StopAtFirst(i, n, vis, clk) ==
  IF FirstVisible(n, vis) = 0 THEN <<>> ELSE <<FirstVisible(n, vis)>>

ClickFrom(i, n, vis, clk) ==
  IF i > n THEN <<>>
  ELSE IF vis[i]
    THEN IF clk[i] # "raises" THEN <<i>>
         ELSE <<i>> \o ClickFrom(i + 1, n, vis, clk)
    ELSE ClickFrom(i + 1, n, vis, clk)

\* the pass ended with a click that worked
Clicked(pass, clk) == pass # <<>> /\ clk[pass[Len(pass)]] # "raises"

InitLadder ==
  /\ excel_path = TRUE
  /\ selected_steps = StageNames
  /\ start_at = "add_services"
  /\ RunIdle
  /\ PutIdle
  /\ ExcelIdle
  /\ LifeIdle
  /\ SaveIdle
  /\ BatchIdle
  /\ RouteIdle
  /\ QtyIdle
  /\ PricesIdle
  /\ BillIdle
  /\ lad_pc = "resolve"
  /\ ladder \in ClickLadders \cup FindLadders
  /\ visible \in [1..Candidates(ladder) -> BOOLEAN]
  /\ click \in (IF ladder \in FindLadders
                   THEN {[i \in 1..Candidates(ladder) |-> "ok"]}
                   ELSE [1..Candidates(ladder) -> ClickResults(ladder)])
  /\ \A i \in 1..Candidates(ladder) : ~visible[i] => click[i] = "ok"
  /\ js_found \in (IF ladder = "route" THEN BOOLEAN ELSE {FALSE})
  /\ acted = <<>>
  /\ chosen = 0
  /\ lad_result = "none"
  /\ script_tried = FALSE

\* save_bill_changes, lines 606-638: up to max_attempts passes over the
\* selectors, the first click that works ends them; raise when none did
ClickSave ==
  /\ lad_pc = "resolve"
  /\ ladder = "save"
  /\ LET pass == ClickFrom(1, Candidates(ladder), visible, click)
     IN IF Clicked(pass, click)
          THEN /\ acted' = pass
               /\ chosen' = pass[Len(pass)]
               /\ lad_result' = "clicked"
          ELSE /\ acted' = pass \o pass \o pass
               /\ chosen' = 0
               /\ lad_result' = "raised"
  /\ script_tried' = \E k \in 1..Len(acted') : click[acted'[k]] # "ok"
  /\ lad_pc' = "resolved"
  /\ UNCHANGED <<notladder, ladder, visible, click, js_found>>

\* click_route_button, lines 1646-1699: the specific id, then the selector
\* list, then the scripted query; returns True or False
ClickRoute ==
  /\ lad_pc = "resolve"
  /\ ladder = "route"
  /\ LET pass == ClickFrom(1, Candidates(ladder), visible, click)
     IN /\ acted' = pass
        /\ IF Clicked(pass, click)
             THEN /\ chosen' = pass[Len(pass)]
                  /\ lad_result' = "clicked"
             ELSE /\ chosen' = 0
                  /\ lad_result' = IF js_found THEN "clicked_by_script"
                                               ELSE "failed"
        /\ script_tried' = ~Clicked(pass, click)
  /\ lad_pc' = "resolved"
  /\ UNCHANGED <<notladder, ladder, visible, click, js_found>>

\* add_single_service, lines 1249-1260, 1380-1391, 1489-1500, 1579-1590:
\* the first selector whose element is visible is taken; it is acted on
\* afterwards.  When none is visible on the last attempt, the checkbox and
\* the OK button are looked for by a script (lines 1403-1419, 1507-1527);
\* the search field and the quantity field are not (lines 1261-1267, 1589)
FindElement ==
  /\ lad_pc = "resolve"
  /\ ladder \in FindLadders
  /\ chosen' = FirstVisible(Candidates(ladder), visible)
  /\ acted' = IF chosen' = 0 THEN <<>> ELSE <<chosen'>>
  /\ lad_result' = IF chosen' = 0 THEN "not_found" ELSE "found"
  /\ script_tried' = (chosen' = 0 /\ ladder \in ScriptedFindLadders)
  /\ lad_pc' = "resolved"
  /\ UNCHANGED <<notladder, ladder, visible, click, js_found>>

NextLadder == ClickSave \/ ClickRoute \/ FindElement

SpecLadder == InitLadder /\ [][NextLadder]_vars

\* C20 as stated: no candidate is chosen or acted on while a candidate
\* declared before it is visible.
C20_FirstVisibleOnly ==
  lad_pc = "resolved" =>
    \A k \in 1..Len(acted) : \A j \in 1..(acted[k] - 1) : ~visible[j]

\* C20, amended: the find ladders (search field, checkbox, OK button) take
\* the first visible candidate and no other; the click ladders (save
\* button, route button) act on visible candidates only, in declared order,
\* and go past a visible candidate only when acting on it raised: the
\* click that ends the ladder is on the first visible candidate whose click
\* works.
C20_FirstVisibleThatWorks ==
  lad_pc = "resolved" =>
    LET n == Candidates(ladder)
        works(i) == visible[i] /\ click[i] # "raises"
    IN /\ \A k \in 1..Len(acted) :
            /\ visible[acted[k]]
            /\ \A j \in 1..(acted[k] - 1) : visible[j] => click[j] = "raises"
       /\ ladder \in FindLadders =>
            /\ \A k \in 1..Len(acted) : \A j \in 1..(acted[k] - 1) : ~visible[j]
            /\ (chosen = 0) = (\A i \in 1..n : ~visible[i])
       /\ ladder \in ClickLadders =>
            /\ (chosen = 0) = (\A i \in 1..n : ~works(i))
            /\ chosen # 0 =>
                 (works(chosen) /\ \A j \in 1..(chosen - 1) : ~works(j))
            /\ \A i \in 1..n :
                 (visible[i] /\ \A j \in 1..(i - 1) : ~works(j))
                   => \E k \in 1..Len(acted) : acted[k] = i

C20_Witness ==
  /\ lad_pc = "resolved"
  /\ ladder = "route"
  /\ visible[1] /\ click[1] = "raises"
  /\ acted = <<1, 3>>
  /\ chosen = 3
  /\ lad_result = "clicked"

\* the ladder ended without its control
LadderFailed == lad_result \in {"raised", "failed", "not_found"}

\* C30: the ladders of the route button, the save button, the item search
\* field and the quantity field report failure only after an in-page
\* script was run for the control.
C30_ScriptBeforeFailure ==
  (lad_pc = "resolved" /\ LadderFailed
     /\ ladder \in {"route", "save", "search_field", "quantity"}) =>
    script_tried

\* ================================ add_single_service: quantity and save
\* float(service.get('Quantity', 1.00)) in thousandths: 1.0, 2.0, 2.5 and
\* 1.004, which is not 1.0 but is written as '1.00'
QuantityValues == {1000, 2000, 2500, 1004}
\* quantity == 1.0
DefaultQuantity == 1000
\* "{:.2f}".format(float(quantity)), in hundredths (no value tried lies
\* half-way between two hundredths)
FormatQuantity(q) == (q + 5) \div 10
\* what the quantity field of a freshly added row shows: '1.00'
FreshText == 100
\* a text the field shows that is not the one written (for instance '2'
\* for '2.00', or a localised number)
OtherText == -1
\* the quantity loop: max_attempts = 3
max_quantity_attempts == 3
\* one attempt: the field echoes the written text; it shows another text; a
\* page call raises before the text is filled
EchoResults == {"match", "mismatch", "raises"}

\* lines 1611-1621: what follows an attempt that did not echo the value
AfterFailedAttempt_FallsThrough(k) ==
  IF k < max_quantity_attempts THEN "retry" ELSE "proceed"

AfterFailedAttempt(k) ==
  IF k < max_quantity_attempts THEN "retry" ELSE "raise"

InitQty ==
  /\ excel_path = TRUE
  /\ selected_steps = StageNames
  /\ start_at = "add_services"
  /\ RunIdle
  /\ PutIdle
  /\ ExcelIdle
  /\ LifeIdle
  /\ SaveIdle
  /\ BatchIdle
  /\ RouteIdle
  /\ PricesIdle
  /\ BillIdle
  /\ LadderIdle
  /\ qt_pc = "quantity"
  /\ quantity \in QuantityValues
  /\ qty_visible \in [1..quantity_selectors -> BOOLEAN]
  /\ echo \in [1..max_quantity_attempts -> EchoResults]
  /\ qt_attempt = 0
  /\ field_text = FreshText
  /\ echoed = FALSE
  /\ save_clicked = FALSE
  /\ qt_result = "none"

\* lines 1565-1571: the default quantity skips the whole block
QtyDecide ==
  /\ qt_pc = "quantity"
  /\ qt_pc' = IF quantity = DefaultQuantity THEN "save" ELSE "find"
  /\ UNCHANGED <<notqty, quantity, qty_visible, echo, qt_attempt, field_text,
                 echoed, save_clicked, qt_result>>

\* lines 1573-1590: the first selector with a visible field, or raise
QtyFind ==
  /\ qt_pc = "find"
  /\ IF FirstVisible(quantity_selectors, qty_visible) = 0
       THEN /\ qt_pc' = "done"
            /\ qt_result' = "false"
       ELSE /\ qt_pc' = "write"
            /\ UNCHANGED qt_result
  /\ UNCHANGED <<notqty, quantity, qty_visible, echo, qt_attempt, field_text,
                 echoed, save_clicked>>

\* lines 1593-1621: one pass of the write loop
QtyWrite ==
  /\ qt_pc = "write"
  /\ ~PauseBlocks
  /\ qt_attempt' = qt_attempt + 1
  /\ CASE echo[qt_attempt'] = "match" ->
            /\ field_text' = FormatQuantity(quantity)
            /\ echoed' = TRUE
            /\ qt_pc' = "save"
            /\ UNCHANGED qt_result
       [] echo[qt_attempt'] = "mismatch" ->
            /\ field_text' = OtherText
            /\ UNCHANGED echoed
            /\ qt_pc' = CASE AfterFailedAttempt(qt_attempt') = "retry" -> "write"
                          [] AfterFailedAttempt(qt_attempt') = "raise" -> "done"
                          [] AfterFailedAttempt(qt_attempt') = "proceed" -> "save"
            /\ qt_result' = IF AfterFailedAttempt(qt_attempt') = "raise"
                              THEN "false" ELSE qt_result
       [] echo[qt_attempt'] = "raises" ->
            /\ UNCHANGED <<field_text, echoed>>
            /\ qt_pc' = CASE AfterFailedAttempt(qt_attempt') = "retry" -> "write"
                          [] AfterFailedAttempt(qt_attempt') = "raise" -> "done"
                          [] AfterFailedAttempt(qt_attempt') = "proceed" -> "save"
            /\ qt_result' = IF AfterFailedAttempt(qt_attempt') = "raise"
                              THEN "false" ELSE qt_result
  /\ UNCHANGED <<notqty, quantity, qty_visible, echo, save_clicked>>

\* lines 1622-1641: click the save button; True when it worked, False when
\* the button did not show up or the click raised
QtySave ==
  /\ qt_pc = "save"
  /\ \E clicked \in BOOLEAN :
       /\ save_clicked' = clicked
       /\ qt_result' = IF clicked THEN "true" ELSE "false"
  /\ qt_pc' = "done"
  /\ UNCHANGED <<notqty, quantity, qty_visible, echo, qt_attempt, field_text,
                 echoed>>

NextQty == QtyDecide \/ QtyFind \/ QtyWrite \/ QtySave

SpecQty == InitQty /\ [][NextQty]_vars

\* C22: a line with quantity 1.0 leaves the quantity field alone; any other
\* quantity is written in at most 3 attempts; and the save button is clicked
\* for such a line only after the field echoed the written text.
C22_QuantityVerifiedBeforeSave ==
  /\ quantity = DefaultQuantity => (qt_attempt = 0 /\ field_text = FreshText)
  /\ qt_attempt <= 3
  /\ (save_clicked /\ quantity # DefaultQuantity) =>
       (echoed /\ field_text = FormatQuantity(quantity))

C22_Witness ==
  /\ qt_pc = "done"
  /\ quantity = 2500
  /\ qt_attempt = 3
  /\ echo[1] = "mismatch"
  /\ echo[2] = "raises"
  /\ field_text = 250
  /\ save_clicked
  /\ qt_result = "true"

\* ====================================================== route_wo_to_comp
\* the transitions of route_wo_to_comp in the order of its source text
RouteOrder == <<"route1", "ok1", "route2", "ok2", "route3", "complete",
                "final_ok">>
RouteSteps == {"route1", "route2", "route3"}
OkSteps == {"ok1", "ok2"}

\* the transition written after t in route_wo_to_comp
NextTransition(t) ==
  CASE t = "route1" -> "ok1"
    [] t = "ok1" -> "route2"
    [] t = "route2" -> "ok2"
    [] t = "ok2" -> "route3"
    [] t = "route3" -> "complete"
    [] t = "complete" -> "final_ok"
    [] t = "final_ok" -> "done"

\* click_route_button: the specific id and the six route_selectors
route_candidates == 7
\* the position of the scripted query, after the last candidate
route_script == 8

\* what one candidate of click_route_button ends in: not visible; clicked
\* and the page settled; is_visible or click raised; clicked, then
\* wait_for_load_state raised
CandidateResults == {"invisible", "ok", "click_raises", "wait_raises"}
\* what the scripted query ends in: no button; clicked and the page settled;
\* clicked, then wait_for_load_state raised; page.evaluate raised
ScriptResults == {"not_found", "found", "found_wait_raises", "raises"}
\* selecting "Complete Work Order": one of the three strategies clicked;
\* none did; wait_for_selector("input[type='radio']") raised
CompleteResults == {"selected", "exhausted", "no_radio"}
\* the final OK: clicked; not visible; click raised and the scripted click
\* ran; the scripted click raised too
FinalOkResults == {"clicked", "invisible", "script", "raises"}

\* where click_route_button starts when t is a Route click
FirstCandidate(t) == IF t \in RouteSteps THEN 1 ELSE 0

\* the transition the function is at succeeded
Succeeded ==
  /\ rt_log' = Append(rt_log, [step |-> rt_pc, ok |-> TRUE])
  /\ rt_pc' = NextTransition(rt_pc)
  /\ rt_cand' = FirstCandidate(NextTransition(rt_pc))
  /\ UNCHANGED rt_result

\* the transition failed and route_wo_to_comp ends with the given result
Failed(result) ==
  /\ rt_log' = Append(rt_log, [step |-> rt_pc, ok |-> FALSE])
  /\ rt_pc' = "done"
  /\ rt_cand' = 0
  /\ rt_result' = result

InitRoute ==
  /\ excel_path = TRUE
  /\ selected_steps = StageNames
  /\ start_at = "add_services"
  /\ RunIdle
  /\ PutIdle
  /\ ExcelIdle
  /\ LifeIdle
  /\ SaveIdle
  /\ BatchIdle
  /\ PricesIdle
  /\ BillIdle
  /\ LadderIdle
  /\ QtyIdle
  /\ rt_pc = "route1"
  /\ rt_cand = 1
  /\ route_clicks = 0
  /\ rt_log = <<>>
  /\ rt_result = "none"

\* click_route_button, lines 1646-1673: one declared candidate
RouteCandidate ==
  /\ rt_pc \in RouteSteps
  /\ rt_cand \in 1..route_candidates
  /\ \E o \in CandidateResults :
       CASE o = "ok" ->
              /\ route_clicks' = route_clicks + 1
              /\ Succeeded
         [] o = "wait_raises" ->
              /\ route_clicks' = route_clicks + 1
              /\ rt_cand' = rt_cand + 1
              /\ UNCHANGED <<rt_pc, rt_log, rt_result>>
         [] OTHER ->
              /\ rt_cand' = rt_cand + 1
              /\ UNCHANGED <<rt_pc, rt_log, rt_result, route_clicks>>
  /\ UNCHANGED notroute

\* click_route_button, lines 1674-1699: the scripted query; lines 1707-1708,
\* 1765-1766, 1807-1808: raise when click_route_button returned False
RouteScript ==
  /\ rt_pc \in RouteSteps
  /\ rt_cand = route_script
  /\ \E o \in ScriptResults :
       CASE o = "found" ->
              /\ route_clicks' = route_clicks + 1
              /\ Succeeded
         [] o = "found_wait_raises" ->
              /\ route_clicks' = route_clicks + 1
              /\ Failed("raised")
         [] OTHER ->
              /\ UNCHANGED route_clicks
              /\ Failed("raised")
  /\ UNCHANGED notroute

\* lines 1710-1763 and 1768-1805: the first and the second OK
RouteOk ==
  /\ rt_pc \in OkSteps
  /\ \/ Succeeded
     \/ Failed("raised")
  /\ UNCHANGED <<notroute, route_clicks>>

\* lines 1810-1847 with the except of lines 1863-1865
RouteComplete ==
  /\ rt_pc = "complete"
  /\ \E o \in CompleteResults :
       IF o = "selected" THEN Succeeded ELSE Failed("true")
  /\ UNCHANGED <<notroute, route_clicks>>

\* a final OK whose failure is raised to the caller
RouteFinalOk_Strict ==
  /\ rt_pc = "final_ok"
  /\ \E o \in FinalOkResults :
       /\ rt_log' = Append(rt_log, [step |-> rt_pc,
                                    ok |-> o \in {"clicked", "script"}])
       /\ rt_result' = IF o \in {"clicked", "script"} THEN "true" ELSE "raised"
  /\ rt_pc' = "done"
  /\ UNCHANGED <<notroute, route_clicks, rt_cand>>

\* lines 1848-1865: the final OK, then return True
RouteFinalOk ==
  /\ rt_pc = "final_ok"
  /\ \E o \in FinalOkResults :
       rt_log' = Append(rt_log, [step |-> rt_pc,
                                 ok |-> o \in {"clicked", "script"}])
  /\ rt_result' = "true"
  /\ rt_pc' = "done"
  /\ UNCHANGED <<notroute, route_clicks, rt_cand>>

NextRoute ==
  RouteCandidate \/ RouteScript \/ RouteOk \/ RouteComplete \/ RouteFinalOk

SpecRoute == InitRoute /\ [][NextRoute]_vars

\* the transition named t was attempted and succeeded
Did(t) == \E k \in 1..Len(rt_log) : rt_log[k].step = t /\ rt_log[k].ok

\* the transition named t was attempted and did not succeed
Missed(t) == \E k \in 1..Len(rt_log) : rt_log[k].step = t /\ ~rt_log[k].ok

\* C23: the transitions attempted are the first ones of the fixed order
\* Route 1, OK 1, Route 2, OK 2, Route 3, Complete, final OK, each after all
\* earlier ones succeeded, and the Route button is clicked at most three
\* times in one invocation.
C23_FixedOrderThreeRouteClicks ==
  /\ Len(rt_log) <= Len(RouteOrder)
  /\ \A k \in 1..Len(rt_log) :
       /\ rt_log[k].step = RouteOrder[k]
       /\ \A j \in 1..(k - 1) : rt_log[j].ok
  /\ route_clicks <= 3

\* C24: route_wo_to_comp returns normally only when the three Route clicks,
\* the two OK confirms and the selection of Complete all succeeded.
C24_TransitionFailureIsFatal ==
  rt_result = "true" =>
    \A k \in 1..6 : Did(RouteOrder[k])

\* C25: when the six transitions before it succeeded, the final OK does not
\* decide the outcome: route_wo_to_comp returns True whether or not the
\* button was clicked.
C25_FinalOkBestEffort ==
  (rt_pc = "done" /\ \A k \in 1..6 : Did(RouteOrder[k])) =>
    rt_result = "true"

C25_Witness ==
  /\ rt_pc = "done"
  /\ \A k \in 1..6 : Did(RouteOrder[k])
  /\ Missed("final_ok")
  /\ rt_result = "true"

\* ========================== create_customer_bill: batch number and form
\* None for self.bill_batch
NoBatch == "<None>"
\* page.evaluate raised
JsRaises == "<raises>"
\* what the batch field can hold: nothing, white space, a number, a number
\* with white space around it
FieldTexts == {"", " ", "B7", " B7 "}
\* self.bill_batch before the call: never set, or the number of the sheet
\* before
BatchBefore == {NoBatch, "B0"}

\* str.strip() on the texts above
Strip(v) == CASE v = " " -> ""
              [] v = " B7 " -> "B7"
              [] OTHER -> v

\* lines 1939-1950: the batch number the two reads give, or that they raise
\* ("raise"); the scripted value is tested for truth only, then stripped
ReadBatch(vis, primary, script) ==
  IF ~vis THEN "raise"
  ELSE IF primary # "" /\ Strip(primary) # "" THEN Strip(primary)
  ELSE IF script = JsRaises THEN "raise"
  ELSE IF script # "" THEN Strip(script)
  ELSE "raise"

InitBatch ==
  /\ excel_path = TRUE
  /\ selected_steps = StageNames
  /\ start_at = "add_services"
  /\ RunIdle
  /\ PutIdle
  /\ ExcelIdle
  /\ LifeIdle
  /\ SaveIdle
  /\ PricesIdle
  /\ BillIdle
  /\ LadderIdle
  /\ QtyIdle
  /\ RouteIdle
  /\ cb_pc = "open"
  /\ batch_visible \in BOOLEAN
  /\ batch_value \in FieldTexts
  /\ js_value \in FieldTexts \cup {JsRaises}
  /\ bill_batch \in BatchBefore
  /\ batch_before = bill_batch
  /\ name_written = FALSE
  /\ confirmed = FALSE
  /\ cb_result = "none"

\* lines 1890-1935: open Select Action, Customer Billing, Create Customer
\* Bill; raise when the menu entry cannot be clicked
CbOpen ==
  /\ cb_pc = "open"
  /\ \/ /\ cb_pc' = "read"
        /\ UNCHANGED cb_result
     \/ /\ cb_pc' = "done"
        /\ cb_result' = "raised"
  /\ UNCHANGED <<notbatch, batch_visible, batch_value, js_value, bill_batch,
                 batch_before, name_written, confirmed>>

\* lines 1936-1950: read the batch number
CbReadBatch ==
  /\ cb_pc = "read"
  /\ LET b == ReadBatch(batch_visible, batch_value, js_value)
     IN IF b = "raise"
          THEN /\ cb_pc' = "done"
               /\ cb_result' = "raised"
               /\ UNCHANGED bill_batch
          ELSE /\ bill_batch' = b
               /\ cb_pc' = "name"
               /\ UNCHANGED cb_result
  /\ UNCHANGED <<notbatch, batch_visible, batch_value, js_value,
                 batch_before, name_written, confirmed>>

\* lines 1951-1968 and 1988-1989: compute bill_name and fill it in
CbName ==
  /\ cb_pc = "name"
  /\ \/ /\ name_written' = TRUE
        /\ cb_pc' = "confirm"
        /\ UNCHANGED cb_result
     \/ /\ cb_pc' = "done"
        /\ cb_result' = "raised"
        /\ UNCHANGED name_written
  /\ UNCHANGED <<notbatch, batch_visible, batch_value, js_value, bill_batch,
                 batch_before, confirmed>>

\* lines 1969-1987: click OK
CbConfirm ==
  /\ cb_pc = "confirm"
  /\ \/ /\ confirmed' = TRUE
        /\ cb_result' = "returned"
     \/ /\ cb_result' = "raised"
        /\ UNCHANGED confirmed
  /\ cb_pc' = "done"
  /\ UNCHANGED <<notbatch, batch_visible, batch_value, js_value, bill_batch,
                 batch_before, name_written>>

NextBatch == CbOpen \/ CbReadBatch \/ CbName \/ CbConfirm

SpecBatch == InitBatch /\ [][NextBatch]_vars

\* the batch field is not visible, or holds no number for the primary read
\* and none for the scripted read
BatchAbsent ==
  \/ ~batch_visible
  \/ /\ Strip(batch_value) = ""
     /\ (js_value = JsRaises \/ Strip(js_value) = "")

\* C26: when the batch number is absent after both reads (or the field is
\* not visible), create_customer_bill raises, self.bill_batch keeps the
\* value it had, and the bill name is neither filled in nor confirmed.
C26_NoBatchIsFatal ==
  (BatchAbsent /\ cb_pc \notin {"open", "read"}) =>
    /\ cb_result = "raised"
    /\ bill_batch = batch_before
    /\ ~name_written
    /\ ~confirmed

\* ====================================================== save_bill_changes
\* the six selectors of save_bill_changes
save_selectors == 6

\* what one selector of one round ends in (lines 612-636): the locator
\* raises or the button is not visible; click and the waits after it work;
\* click raises; click works and a wait after it raises
SelectorResults == {"invisible", "locator_raises", "ok", "click_raises",
                    "wait_raises"}

\* page.evaluate('document.querySelector(selector).click()'), line 628
ScriptClickResults == {"ok", "raises"}

\* the verification after a click that worked (lines 642-666)
VerifyResults == {"confirmed", "unconfirmed", "raises"}

InitSave ==
  /\ excel_path = TRUE
  /\ selected_steps = StageNames
  /\ start_at = "add_services"
  /\ RunIdle
  /\ PutIdle
  /\ ExcelIdle
  /\ LifeIdle
  /\ BatchIdle
  /\ RouteIdle
  /\ QtyIdle
  /\ PricesIdle
  /\ BillIdle
  /\ LadderIdle
  /\ sv_pc = "start"
  /\ sv_attempt = 0
  /\ sv_selector = 0
  /\ save_successful = FALSE
  /\ save_clicks = <<>>
  /\ sv_result = "none"

\* lines 606-611: max_attempts = 3, save_successful = False, first round
SvStart ==
  /\ sv_pc = "start"
  /\ sv_pc' = "select"
  /\ sv_attempt' = 0
  /\ sv_selector' = 1
  /\ save_successful' = FALSE
  /\ UNCHANGED <<notsave, save_clicks, sv_result>>

\* the inner loop is over (break, or the selectors are used up): lines
\* 637-639, then line 608-610 of the next round, or lines 641 and 667-671
\* when no round is left
EndOfRound(ok) ==
  IF ok
    THEN /\ sv_pc' = "verify"
         /\ UNCHANGED <<sv_attempt, sv_result>>
         /\ sv_selector' = 0
    ELSE IF sv_attempt + 1 < max_attempts
      THEN /\ sv_pc' = "select"
           /\ sv_attempt' = sv_attempt + 1
           /\ sv_selector' = 1
           /\ UNCHANGED sv_result
      ELSE /\ sv_pc' = "done"
           /\ sv_attempt' = sv_attempt + 1
           /\ sv_selector' = 0
           /\ sv_result' = "raised"

\* lines 634-636 and the end of the for body: the next selector
NextSelector ==
  IF sv_selector < save_selectors
    THEN /\ sv_selector' = sv_selector + 1
         /\ UNCHANGED <<sv_pc, sv_attempt, sv_result>>
    ELSE EndOfRound(FALSE)

\* lines 612-636: one selector of one round.  click and the waits after it
\* share one try, so a wait that raises after a click that worked is
\* answered by the scripted click on the same selector
SvSelector ==
  /\ sv_pc = "select"
  /\ \E r \in SelectorResults, js \in ScriptClickResults :
       CASE r \in {"invisible", "locator_raises"} ->
              /\ UNCHANGED <<save_clicks, save_successful>>
              /\ NextSelector
         [] r = "ok" ->
              /\ save_clicks' = Append(save_clicks, "click")
              /\ save_successful' = TRUE
              /\ EndOfRound(TRUE)
         [] r \in {"click_raises", "wait_raises"} ->
              LET sofar == IF r = "wait_raises"
                             THEN Append(save_clicks, "click")
                             ELSE save_clicks
              IN IF js = "ok"
                   THEN /\ save_clicks' = Append(sofar, "script")
                        /\ save_successful' = TRUE
                        /\ EndOfRound(TRUE)
                   ELSE /\ save_clicks' = sofar
                        /\ UNCHANGED save_successful
                        /\ NextSelector
  /\ UNCHANGED notsave

\* lines 641-666: the save is waited for and looked for; whatever raises
\* there is logged and dropped
SvVerify ==
  /\ sv_pc = "verify"
  /\ \E v \in VerifyResults : sv_result' = "saved"
  /\ sv_pc' = "done"
  /\ UNCHANGED <<notsave, sv_attempt, sv_selector, save_successful,
                 save_clicks>>

NextSave == SvStart \/ SvSelector \/ SvVerify

SpecSave == InitSave /\ [][NextSave]_vars

\* C31: save_bill_changes makes at most 3 rounds over its selectors, the
\* save control is clicked successfully at most once per call, and the call
\* raises when no click succeeded in any round.
C31_AtMostOneSaveClick ==
  /\ sv_attempt <= max_attempts
  /\ Len(save_clicks) <= 1
  /\ (sv_pc = "done" /\ save_clicks = <<>>) => sv_result = "raised"

\* ====================== the interactive surface and its worker threads
\* runs started in one session of the interactive surface
MaxRuns == 2
\* on_pause calls counted per run
MaxToggles == 3

\* the worker threads that have not ended; a thread is "started" before the
\* early stop check, "working" past setup_browser, then in the "finally"
\* clause, then "ended"
Alive == {r \in 1..Len(threads) : threads[r] # "ended"}

InitSurface ==
  /\ excel_path = TRUE
  /\ selected_steps = StageNames
  /\ start_at = "add_services"
  /\ RunIdle
  /\ PutIdle
  /\ ExcelIdle
  /\ SaveIdle
  /\ BatchIdle
  /\ RouteIdle
  /\ QtyIdle
  /\ PricesIdle
  /\ BillIdle
  /\ LadderIdle
  /\ threads = <<>>
  /\ events = <<>>
  /\ ss_stop_event = 0
  /\ ss_is_running = FALSE
  /\ ss_paused = FALSE
  /\ shown_running = FALSE
  /\ toggles = 0

\* lines 2619-2625: a script run draws the buttons: Start is disabled while
\* is_running, Pause and Stop are disabled while not is_running
controls ==
  /\ shown_running # ss_is_running
  /\ shown_running' = ss_is_running
  /\ UNCHANGED <<notlife, threads, events, ss_stop_event, ss_is_running,
                 ss_paused, toggles>>

\* lines 2472-2504 (Start was drawn enabled): validate_inputs, then
\* disable_controls, a new Event, paused = False, and the worker thread is
\* started; the script run that follows draws the buttons again
on_start ==
  /\ ~shown_running
  /\ Len(threads) < MaxRuns
  /\ \E valid \in BOOLEAN :
       IF valid
         THEN /\ ss_is_running' = TRUE
              /\ events' = Append(events, FALSE)
              /\ ss_stop_event' = Len(events) + 1
              /\ ss_paused' = FALSE
              /\ toggles' = 0
              /\ threads' = Append(threads, "started")
              /\ shown_running' = TRUE
         ELSE /\ shown_running' = ss_is_running
              /\ UNCHANGED <<threads, events, ss_stop_event, ss_is_running,
                             ss_paused, toggles>>
  /\ UNCHANGED notlife

\* lines 2506-2511 (Pause was drawn enabled)
on_pause ==
  /\ shown_running
  /\ toggles < MaxToggles
  /\ ss_paused' = ~ss_paused
  /\ toggles' = toggles + 1
  /\ shown_running' = ss_is_running
  /\ UNCHANGED <<notlife, threads, events, ss_stop_event, ss_is_running>>

\* an on_stop that flips the stop token
on_stop_Toggles ==
  /\ shown_running
  /\ IF ss_stop_event # 0
       THEN events' = [events EXCEPT ![ss_stop_event] = ~@]
       ELSE UNCHANGED events
  /\ shown_running' = ss_is_running
  /\ UNCHANGED <<notlife, threads, ss_stop_event, ss_is_running, ss_paused,
                 toggles>>

\* lines 2513-2517 (Stop was drawn enabled): set the Event of session_state
on_stop ==
  /\ shown_running
  /\ IF ss_stop_event # 0
       THEN events' = [events EXCEPT ![ss_stop_event] = TRUE]
       ELSE UNCHANGED events
  /\ shown_running' = ss_is_running
  /\ UNCHANGED <<notlife, threads, ss_stop_event, ss_is_running, ss_paused,
                 toggles>>

\* run_automation, lines 2305-2319: the early stop check: enable_controls()
\* and return (into the finally clause), or setup_browser
RunEarlyStopCheck(r) ==
  /\ threads[r] = "started"
  /\ IF events[r]
       THEN /\ threads' = [threads EXCEPT ![r] = "finally"]
            /\ ss_is_running' = FALSE
       ELSE /\ threads' = [threads EXCEPT ![r] = "working"]
            /\ UNCHANGED ss_is_running
  /\ UNCHANGED <<notlife, events, ss_stop_event, ss_paused, shown_running,
                 toggles>>

\* run_automation, lines 2325-2333: pd.ExcelFile raises: enable_controls()
\* and return, with the browser still open
RunReadExcelFailed(r) ==
  /\ threads[r] = "working"
  /\ threads' = [threads EXCEPT ![r] = "finally"]
  /\ ss_is_running' = FALSE
  /\ UNCHANGED <<notlife, events, ss_stop_event, ss_paused, shown_running,
                 toggles>>

\* run_automation, lines 2334-2461: the sheet loop ends, is left by break,
\* or an exception reaches the except clause
RunLeavesLoop(r) ==
  /\ threads[r] = "working"
  /\ threads' = [threads EXCEPT ![r] = "finally"]
  /\ UNCHANGED <<notlife, events, ss_stop_event, ss_is_running, ss_paused,
                 shown_running, toggles>>

\* run_automation, lines 2462-2467: close_browser, enable_controls(), and
\* the thread ends
RunFinally(r) ==
  /\ threads[r] = "finally"
  /\ threads' = [threads EXCEPT ![r] = "ended"]
  /\ ss_is_running' = FALSE
  /\ UNCHANGED <<notlife, events, ss_stop_event, ss_paused, shown_running,
                 toggles>>

RunThread ==
  \E r \in 1..Len(threads) :
    \/ RunEarlyStopCheck(r)
    \/ RunReadExcelFailed(r)
    \/ RunLeavesLoop(r)
    \/ RunFinally(r)

NextSurface == controls \/ on_start \/ on_pause \/ on_stop \/ RunThread

SpecSurface == InitSurface /\ [][NextSurface]_vars

\* C32: once the stop token of a run is set, no step clears it before the
\* worker of that run has ended; on_pause flips the pause flag each time it
\* is called, on as well as off.
C32_StopIsWriteOnce ==
  [][/\ \A r \in 1..Len(events) :
          (events[r] /\ threads[r] # "ended") =>
            (Len(events') >= r /\ events'[r])
     /\ toggles' = toggles + 1 => ss_paused' = ~ss_paused]_vars

\* a run whose stop token is set and whose worker has not ended, after
\* pause was switched on, off and on again
C32_Witness ==
  /\ ss_stop_event # 0
  /\ events[ss_stop_event]
  /\ threads[ss_stop_event] = "working"
  /\ toggles = 3
  /\ ss_paused

\* C34: at most one worker thread is alive at any time.
C34_SingleWorker == Cardinality(Alive) <= 1

\* ================================= the header cells and update_excel_file
\* the header cells of a sheet, column B rows 2 to 6, and the adapter field
\* each is read into
HeaderCells == {"B2", "B3", "B4", "B5", "B6"}
FieldOf(c) ==
  CASE c = "B2" -> "wo_number"
    [] c = "B3" -> "wo_description"
    [] c = "B4" -> "bill_batch"
    [] c = "B5" -> "bill_status"
    [] c = "B6" -> "reviewed_by"
Fields == {FieldOf(c) : c \in HeaderCells}

\* an empty cell (NaN in the data frame), and None in an adapter field
EmptyCell == "<empty>"
NoneField == "<None>"
\* a cell holds nothing, white space, or a text
CellValues == {EmptyCell, " ", "old"}
\* what the create_bill step reads from the bill page
NewBatch == "B7"

\* str(df.iloc[r, 1]).strip() if pd.notna(df.iloc[r, 1]) else None
ReadCell(v) ==
  CASE v = EmptyCell -> NoneField
    [] v = " " -> ""
    [] OTHER -> v

\* truth value of an adapter field
FieldSet(v) == v \notin {NoneField, ""}

\* update_excel_file, lines 435-447: the header cells after the assignments
WriteHeader_Blanks(cs, j) ==
  [c \in HeaderCells |->
     IF c = "B5"
       THEN IF FieldSet(j[FieldOf(c)]) THEN j[FieldOf(c)] ELSE "CREATED"
       ELSE IF j[FieldOf(c)] = NoneField THEN EmptyCell ELSE j[FieldOf(c)]]

WriteHeader(cs, j) ==
  [c \in HeaderCells |->
     IF FieldSet(j[FieldOf(c)]) THEN j[FieldOf(c)]
     ELSE IF c = "B5" THEN "CREATED"
     ELSE cs[c]]

InitExcel ==
  /\ excel_path = TRUE
  /\ selected_steps = StageNames
  /\ start_at = "add_services"
  /\ RunIdle
  /\ PutIdle
  /\ SaveIdle
  /\ LifeIdle
  /\ BatchIdle
  /\ RouteIdle
  /\ QtyIdle
  /\ PricesIdle
  /\ BillIdle
  /\ LadderIdle
  /\ xl_pc = "parse"
  /\ has_path \in BOOLEAN
  /\ cells \in [HeaderCells -> CellValues]
  /\ cells_before = cells
  /\ job = [f \in Fields |-> NoneField]
  /\ bill_created = "not_run"
  /\ xl_result = "none"

\* run_automation, lines 2353-2358 and 2400-2404: the header cells are read
\* into the adapter; a sheet without WO number is skipped
XlReadHeader ==
  /\ xl_pc = "parse"
  /\ job' = [f \in Fields |->
               ReadCell(cells[CHOOSE c \in HeaderCells : FieldOf(c) = f])]
  /\ xl_pc' = IF FieldSet(job'.wo_number) THEN "pipeline" ELSE "skipped"
  /\ UNCHANGED <<notxl, has_path, cells, cells_before, bill_created,
                 xl_result>>

\* run_automation, lines 2420-2447: the step pipeline as far as it touches
\* the header fields: create_bill does not run (not selected, stop seen, no
\* page), or create_customer_bill sets bill_batch to the stripped text of
\* the batch field (lines 1942, 1946), or it raises and the sheet is left.
\* save_bill_info (lines 1870-1886) calls update_excel_file when the batch
\* id is not empty
XlPipeline ==
  /\ xl_pc = "pipeline"
  /\ \E outcome \in {"not_run", "batch", "blank_batch", "raised"} :
       /\ bill_created' = outcome
       /\ job' = CASE outcome = "batch" -> [job EXCEPT !.bill_batch = NewBatch]
                   [] outcome = "blank_batch" -> [job EXCEPT !.bill_batch = ""]
                   [] OTHER -> job
       /\ xl_pc' = CASE outcome = "raised" -> "aborted"
                     [] outcome = "batch" -> "bill_info"
                     [] OTHER -> "update"
  /\ UNCHANGED <<notxl, has_path, cells, cells_before, xl_result>>

\* update_excel_file, lines 418-461, called from save_bill_info (line 1881)
\* and at the end of the sheet (line 2449 or 2452): False when there is no
\* working copy path or when loading or saving the workbook raises;
\* otherwise the header cells are assigned and the workbook saved.  The
\* callers drop the returned value and go on.
XlUpdate ==
  /\ xl_pc \in {"bill_info", "update"}
  /\ cells_before' = cells
  /\ \E io \in {"ok", "load_raises", "save_raises"} :
       IF has_path /\ io = "ok"
         THEN /\ cells' = WriteHeader(cells, job)
              /\ xl_result' = "true"
         ELSE /\ UNCHANGED cells
              /\ xl_result' = "false"
  /\ xl_pc' = IF xl_pc = "bill_info" THEN "update" ELSE "next_sheet"
  /\ UNCHANGED <<notxl, has_path, job, bill_created>>

NextExcel == XlReadHeader \/ XlPipeline \/ XlUpdate

SpecExcel == InitExcel /\ [][NextExcel]_vars

\* C38: the status CREATED is written into a sheet only for a Job that has a
\* bill batch id.
C38_CreatedOnlyWithBatch ==
  (xl_result = "true" /\ cells["B5"] = "CREATED") =>
    FieldSet(job.bill_batch)

\* C39: update_excel_file leaves the cell of WO number, description, batch
\* id and reviewer as it was when the Job's field is empty and otherwise
\* writes the field into it; without a working copy path, or when the write
\* fails, it returns False, changes no cell, and the run goes on.
C39_NoHeaderBlanked ==
  /\ xl_result # "none" =>
       /\ \A c \in HeaderCells \ {"B5"} :
            /\ ~FieldSet(job[FieldOf(c)]) => cells[c] = cells_before[c]
            /\ cells[c] # cells_before[c] =>
                 (xl_result = "true" /\ cells[c] = job[FieldOf(c)])
       /\ ~has_path => xl_result = "false"
       /\ xl_result = "false" => cells = cells_before
       /\ xl_pc \in {"update", "next_sheet"}
  /\ xl_pc = "next_sheet" => xl_result \in {"true", "false"}

\* a Job without description and reviewer was written back: both cells are
\* as they were, and the batch id of the new bill is in B4
C39_Witness ==
  /\ xl_pc = "update"
  /\ xl_result = "true"
  /\ job.wo_description = NoneField
  /\ job.reviewed_by = ""
  /\ cells["B3"] = EmptyCell
  /\ cells["B6"] = " "
  /\ cells_before["B4"] = "old"
  /\ cells["B4"] = NewBatch

\* ============================== run_automation: the put_prices step
InitPut ==
  /\ excel_path = TRUE
  /\ selected_steps = StageNames
  /\ start_at = "add_services"
  /\ RunIdle
  /\ ExcelIdle
  /\ LifeIdle
  /\ SaveIdle
  /\ BatchIdle
  /\ RouteIdle
  /\ QtyIdle
  /\ PricesIdle
  /\ BillIdle
  /\ LadderIdle
  /\ pp_pc = "sync"
  /\ pp_saves = 0

\* save_bill_changes is called: one more call, its state as at entry
CallSave ==
  /\ pp_saves' = pp_saves + 1
  /\ sv_pc' = "start"
  /\ sv_result' = "none"
  /\ UNCHANGED <<sv_attempt, sv_selector, save_successful, save_clicks>>

\* line 2443 and process_customer_bill, lines 1025-1031:
\* enter_services_prices returns or raises; when it returned,
\* save_bill_changes is called
PpSync ==
  /\ pp_pc = "sync"
  /\ \E synced \in BOOLEAN :
       IF synced
         THEN /\ pp_pc' = "save"
              /\ CallSave
         ELSE /\ pp_pc' = "raised"
              /\ UNCHANGED <<pp_saves, savevars>>
  /\ UNCHANGED notputsave

\* process_customer_bill, lines 1031-1034: the error of save_bill_changes is
\* re-raised and leaves the step; otherwise process_customer_bill returns
\* and run_automation calls save_bill_changes again (lines 2444-2445)
PpSaved ==
  /\ pp_pc = "save"
  /\ sv_pc = "done"
  /\ IF sv_result = "raised"
       THEN /\ pp_pc' = "raised"
            /\ UNCHANGED <<pp_saves, savevars>>
       ELSE /\ pp_pc' = "save_again"
            /\ CallSave
  /\ UNCHANGED notputsave

\* run_automation, lines 2444-2447: whatever the second save_bill_changes
\* raises is dropped; the step is over
PpSavedAgain ==
  /\ pp_pc = "save_again"
  /\ sv_pc = "done"
  /\ pp_pc' = "returned"
  /\ UNCHANGED <<notput, pp_saves>>

NextPut ==
  PpSync \/ SvStart \/ SvSelector \/ SvVerify \/ PpSaved \/ PpSavedAgain

SpecPut == InitPut /\ [][NextPut]_vars

\* C40: the put_prices step calls save_bill_changes once, after the prices
\* were synchronized, and the step fails when that call fails.
C40_BillSavedOncePerJob ==
  /\ pp_saves <= 1
  /\ pp_pc = "returned" => (pp_saves = 1 /\ sv_result = "saved")
====
